---- MODULE Spec2Model ----
(***************************************************************************)
(* Model of the message-routing and correlation engine:                    *)
(*   - the channel registry and ack correlation table (api/channel.ts),    *)
(*   - the request dispatch pipeline, the deferred acknowledgement and the *)
(*     outbound buffering layer (transport_strategy/elipc_strategy.ts).    *)
(*                                                                         *)
(* JavaScript values: an optional string is the empty tuple (undefined)    *)
(* or a one-element tuple holding the string.                              *)
(***************************************************************************)
EXTENDS Integers, Sequences, FiniteSets, TLC

VARIABLES
    channelMap,     \* channel.ts:8   Map<channelId, ProviderIdentity>, in insertion order
    remoteAckMap,   \* channel.ts:9   Map<ackKey, RemoteAck>; a RemoteAck is named by its call token
    listeners,      \* ofEvents: the armed one-shot "closed" watches, in registration order
    live,           \* core_state: the windows / external connections that currently resolve
    envOf,          \* history: the ackToSender envelope forwarded with each pending call token
    pendingMessages,\* elipc_strategy.ts:141 the buffered message groups, in key insertion order
    pendingFlush,   \* elipc_strategy.ts:142
    immediates,     \* the number of flush callbacks queued with setImmediate
    routing,        \* core_state: the routing info of each destination identity
    framestrategy,  \* coreState.argo.framestrategy
    reqs,           \* the handler invocations queued by the request handler, oldest first
    running,        \* the handlers that were called and have not ended, oldest first
    senderDestroyed, \* e.sender.isDestroyed() of the frame the messages come from
    tx,             \* the deferred acknowledgement of the transaction being served
    onListeners,    \* ofEvents: the listeners registered with on, in registration order
    unsubs,         \* the unsubscribe closures handed out by addEventListener
    remoteSubs,     \* event_listener.js: the remote leg of each channel subscription
    last            \* history: the observable effects of the last operation

chanVars == <<channelMap, remoteAckMap, listeners, live, envOf>>

bufVars == <<pendingMessages, pendingFlush, immediates, routing, framestrategy>>

dispVars == <<reqs, running, senderDestroyed, tx>>

subVars == <<onListeners, unsubs, remoteSubs>>

vars == <<channelMap, remoteAckMap, listeners, live, envOf,
          pendingMessages, pendingFlush, immediates, routing, framestrategy,
          reqs, running, senderDestroyed, tx, onListeners, unsubs, remoteSubs, last>>

(***************************************************************************)
(* Bounds                                                                  *)
(***************************************************************************)
MaxListeners == 4
MaxCalls == 2
MaxBatch == 3
MaxImmediates == 3
MaxRequests == 2
MaxPendingAcks == 1
MaxInFlight == 1
MaxSubscriptions == 2

(***************************************************************************)
(* JavaScript value helpers                                                *)
(***************************************************************************)
Undef == <<>>

S(str) == <<str>>

\* template-literal conversion `${v}` of an optional string
Str(v) == IF v = Undef THEN "undefined" ELSE v[1]

\* JavaScript truthiness of an optional string
Truthy(v) == v # Undef /\ v[1] # ""

\* JSON.stringify of an identity: keys holding undefined are dropped
Stringify(identity) ==
    {<<"uuid", identity.uuid>>} \cup
    (IF identity.name = Undef THEN {} ELSE {<<"name", identity.name>>})

\* JSON.parse followed by the read of uuid and name: a missing key reads undefined
Parse(json) ==
    [uuid |-> (CHOOSE p \in json : p[1] = "uuid")[2],
     name |-> IF \E p \in json : p[1] = "name"
              THEN (CHOOSE p \in json : p[1] = "name")[2] ELSE Undef]

Wire(identity) == Parse(Stringify(identity))

(***************************************************************************)
(* Input domains                                                           *)
(***************************************************************************)
CHANNEL_APP_ACTION == "process-channel-message"
CHANNEL_ACK_ACTION == "send-channel-result"
CHANNEL_CONNECT_ACTION == "process-channel-connection"

\* the entities core_state may know: a window and an external connection
Windows == {[uuid |-> "app1", name |-> S("win1"), isExternal |-> FALSE]}

Externals == {[uuid |-> "ext1", name |-> Undef, isExternal |-> TRUE]}

Entities == Windows \cup Externals

\* identities presented to createChannel: the entities, and an
\* application-level identity without a name
Identities ==
    {[uuid |-> e.uuid, name |-> e.name] : e \in Entities} \cup
    {[uuid |-> "app1", name |-> Undef]}

\* identities of the clients that connect and send: with and without a name
Requesters ==
    {[uuid |-> "app1", name |-> Undef], [uuid |-> "app1", name |-> S("win1")]}

\* the identity of the provider that reports a result
ReporterIdentity == [uuid |-> "ext1", name |-> Undef]

ChannelNames == {Undef, S(""), S("svc")}

MessageIds == {1, 2}

CallIds == 1..MaxCalls

\* payloads a provider may report: none, a falsy one, a truthy one
Payloads == {Undef, S(""), S("ready")}

Reasons == {Undef, S("boom")}

Reporter == 0

NoEnv == <<>>

Absent == <<>>

(***************************************************************************)
(* Map helpers (ES6 Map keeps insertion order; set on an existing key      *)
(* replaces the value in place)                                            *)
(***************************************************************************)
\* the elements of s at the indices in keep, in the order of s
SelectAt(s, keep) ==
    LET F[i \in 0..Len(s)] ==
            IF i = 0 THEN <<>>
            ELSE IF i \in keep THEN Append(F[i-1], s[i]) ELSE F[i-1]
    IN  F[Len(s)]

MapHas(m, channelId) == \E i \in 1..Len(m) : m[i].channelId = channelId

MapGet(m, channelId) ==
    IF MapHas(m, channelId)
    THEN m[CHOOSE i \in 1..Len(m) : m[i].channelId = channelId]
    ELSE Absent

MapSet(m, channelId, value) ==
    IF MapHas(m, channelId)
    THEN [i \in 1..Len(m) |-> IF m[i].channelId = channelId THEN value ELSE m[i]]
    ELSE Append(m, value)

MapDelete(m, channelId) ==
    SelectAt(m, {i \in 1..Len(m) : m[i].channelId # channelId})

AckHas(m, key) == key \in DOMAIN m

\* mutant: an entry already under the key is kept
AckSetKeepsFirst(m, key, cb) ==
    [k \in (DOMAIN m) \cup {key} |-> IF k \in DOMAIN m THEN m[k] ELSE cb]

AckSet(m, key, cb) == [k \in (DOMAIN m) \cup {key} |-> IF k = key THEN cb ELSE m[k]]

AckDelete(m, key) == [k \in (DOMAIN m) \ {key} |-> m[k]]

(***************************************************************************)
(* channel.ts: pure helpers                                                *)
(***************************************************************************)
getAckKey(id, identity) ==
    ToString(id) \o "-" \o identity.uuid \o "-" \o Str(identity.name)

getChannelId(uuid, name, channelName) ==
    uuid \o "/" \o Str(name) \o "/" \o Str(channelName)

createAckToSender(identity, messageId, providerIdentity) ==
    [action |-> CHANNEL_ACK_ACTION,
     payload |-> [correlationId |-> messageId,
                  destinationToken |-> identity,
                  payload |-> providerIdentity,
                  success |-> TRUE]]

\* core_state.getExternalOrOfWindowIdentity: the owning entity, or absent
getExternalOrOfWindowIdentity(identity) ==
    IF \E e \in live : e.isExternal /\ e.uuid = identity.uuid
    THEN CHOOSE e \in live : e.isExternal /\ e.uuid = identity.uuid
    ELSE IF \E e \in live : ~e.isExternal /\ e.uuid = identity.uuid /\ e.name = identity.name
    THEN CHOOSE e \in live : ~e.isExternal /\ e.uuid = identity.uuid /\ e.name = identity.name
    ELSE Absent

\* route.externalApplication('closed', uuid) / route.window('closed', uuid, name)
closedEvent(providerIdentity) ==
    IF providerIdentity.isExternal
    THEN [topic |-> "externalapplication", type |-> "closed",
          uuid |-> providerIdentity.uuid, name |-> Undef]
    ELSE [topic |-> "window", type |-> "closed",
          uuid |-> providerIdentity.uuid, name |-> providerIdentity.name]

\* route.application('closed', uuid)
appClosedEvent(uuid) ==
    [topic |-> "application", type |-> "closed", uuid |-> uuid, name |-> Undef]

\* the two one-shot watches armed by createChannelTeardown
createChannelTeardown(providerIdentity) ==
    <<[event |-> closedEvent(providerIdentity), emits |-> TRUE,
       providerIdentity |-> providerIdentity],
      [event |-> appClosedEvent(providerIdentity.uuid), emits |-> FALSE,
       providerIdentity |-> providerIdentity]>>

getChannelByChannelId(channelId) == MapGet(channelMap, channelId)

getChannelByIdentity(identity) ==
    SelectAt(channelMap,
        {i \in 1..Len(channelMap) :
            /\ channelMap[i].uuid = identity.uuid
            /\ (~Truthy(identity.name) \/ channelMap[i].name = identity.name)})

\* mutant: the search stops at the first match
getChannelByChannelNameFirst(channelName) ==
    LET hits == {i \in 1..Len(channelMap) : channelMap[i].channelName = channelName}
    IN  IF hits = {} THEN Absent
        ELSE channelMap[CHOOSE i \in hits : \A j \in hits : i <= j]

\* forEach overwrites the result on every match: the last match is returned
getChannelByChannelName(channelName) ==
    LET hits == {i \in 1..Len(channelMap) : channelMap[i].channelName = channelName}
    IN  IF hits = {} THEN Absent
        ELSE channelMap[CHOOSE i \in hits : \A j \in hits : j <= i]

(***************************************************************************)
(* Effects of one operation, as its caller and the collaborators see them  *)
(***************************************************************************)
NoArg == [none |-> TRUE]

Effect(op, arg, ret, acks, nacks, sent, events) ==
    [op |-> op, arg |-> arg, ret |-> ret, acks |-> acks, nacks |-> nacks,
     sent |-> sent, events |-> events]

Threw(message) == [threw |-> S(message), value |-> Absent]

Returned(value) == [threw |-> Undef, value |-> value]

\* the smallest call token that names no pending RemoteAck
FreshCb == CHOOSE c \in CallIds :
              /\ \A k \in DOMAIN remoteAckMap : remoteAckMap[k] # c
              /\ \A d \in CallIds :
                    (\A k \in DOMAIN remoteAckMap : remoteAckMap[k] # d) => c <= d

HasFreshCb == \E c \in CallIds : \A k \in DOMAIN remoteAckMap : remoteAckMap[k] # c

\* the history of envelopes follows the table: only pending calls keep one
EnvAfter(table, cb, env) ==
    [c \in CallIds |->
        IF c = cb THEN env
        ELSE IF \E k \in DOMAIN table : table[k] = c THEN envOf[c] ELSE NoEnv]

(***************************************************************************)
(* Channel.createChannel                                                   *)
(***************************************************************************)
\* mutant: the duplicate check is forgotten
CreateChannelFailsUnresolvedOnly(identity, channelName) ==
    getExternalOrOfWindowIdentity(identity) = Absent

CreateChannelFails(identity, channelName) ==
    LET providerApp == getExternalOrOfWindowIdentity(identity)
        channelId == getChannelId(identity.uuid, identity.name, channelName)
    IN  providerApp = Absent \/ getChannelByChannelId(channelId) # Absent

RegisterFailed ==
    "Register Failed: Please note that only one channel may be registered per identity per channelName."

\* mutant: the channel is stored and watched before the check throws
CreateChannelEager(identity, channelName) ==
    LET providerApp == getExternalOrOfWindowIdentity(identity)
        channelId == getChannelId(identity.uuid, identity.name, channelName)
        arg == [identity |-> identity, channelName |-> channelName, channelId |-> channelId]
        resolved == IF providerApp = Absent
                    THEN [uuid |-> identity.uuid, name |-> identity.name, isExternal |-> FALSE]
                    ELSE providerApp
        providerIdentity == [uuid |-> resolved.uuid, name |-> resolved.name,
                             isExternal |-> resolved.isExternal,
                             channelName |-> channelName, channelId |-> channelId]
    IN  /\ Len(listeners) + 2 <= MaxListeners
        /\ channelMap' = MapSet(channelMap, channelId, providerIdentity)
        /\ listeners' = listeners \o createChannelTeardown(providerIdentity)
        /\ last' = IF CreateChannelFails(identity, channelName)
                   THEN Effect("createChannel", arg, Threw(RegisterFailed),
                               <<>>, <<>>, <<>>, <<>>)
                   ELSE Effect("createChannel", arg, Returned(providerIdentity),
                               <<>>, <<>>, <<>>,
                               <<[type |-> "channel-connected", payload |-> providerIdentity]>>)
        /\ UNCHANGED <<remoteAckMap, live, envOf>>
        /\ UNCHANGED <<bufVars, dispVars, subVars>>

CreateChannel(identity, channelName) ==
    LET providerApp == getExternalOrOfWindowIdentity(identity)
        channelId == getChannelId(identity.uuid, identity.name, channelName)
        arg == [identity |-> identity, channelName |-> channelName, channelId |-> channelId]
        providerIdentity == [uuid |-> providerApp.uuid, name |-> providerApp.name,
                             isExternal |-> providerApp.isExternal,
                             channelName |-> channelName, channelId |-> channelId]
    IN  IF CreateChannelFails(identity, channelName)
        THEN /\ last' = Effect("createChannel", arg, Threw(RegisterFailed),
                               <<>>, <<>>, <<>>, <<>>)
             /\ UNCHANGED <<channelMap, remoteAckMap, listeners, live, envOf>>
             /\ UNCHANGED <<bufVars, dispVars, subVars>>
        ELSE /\ Len(listeners) + 2 <= MaxListeners
             /\ channelMap' = MapSet(channelMap, channelId, providerIdentity)
             /\ listeners' = listeners \o createChannelTeardown(providerIdentity)
             /\ last' = Effect("createChannel", arg, Returned(providerIdentity),
                               <<>>, <<>>, <<>>,
                               <<[type |-> "channel-connected", payload |-> providerIdentity]>>)
             /\ UNCHANGED <<remoteAckMap, live, envOf>>
             /\ UNCHANGED <<bufVars, dispVars, subVars>>

(***************************************************************************)
(* Channel.addEventListener and the closure it returns                     *)
(***************************************************************************)
\* the identities channel events are listened on
TargetIdentities == {[uuid |-> "app1", name |-> Undef], [uuid |-> "app1", name |-> S("win1")]}

EventTypes == {"connected"}

\* the listener functions
ListenerFns == {"f", "g"}

\* route.channel(type, uuid, name): the event name
routeChannel(type, uuid, name) ==
    "channel/" \o type \o "/" \o uuid \o (IF name = Undef THEN "" ELSE "-" \o name[1])

\* ofEvents.removeListener: the most recently added registration of the
\* listener for the event is removed, if there is one
removeListener(registered, eventString, listener) ==
    LET hits == {i \in 1..Len(registered) :
                    registered[i] = [event |-> eventString, listener |-> listener]}
    IN  IF hits = {} THEN registered
        ELSE SelectAt(registered,
                      (1..Len(registered)) \ {CHOOSE i \in hits : \A j \in hits : j <= i})

\* Channel.addEventListener: the listener is registered and the closure
\* over (eventString, listener) returned
AddEventListener(targetIdentity, type, listener) ==
    LET eventString == IF Truthy(targetIdentity.name)
                       THEN routeChannel(type, targetIdentity.uuid, targetIdentity.name)
                       ELSE routeChannel(type, targetIdentity.uuid, Undef)
    IN  /\ Len(unsubs) < MaxSubscriptions
        /\ onListeners' = Append(onListeners, [event |-> eventString, listener |-> listener])
        /\ unsubs' = Append(unsubs, [eventString |-> eventString, listener |-> listener,
                                     invoked |-> FALSE])
        /\ last' = Effect("addEventListener",
                          [targetIdentity |-> targetIdentity, type |-> type,
                           listener |-> listener],
                          Len(unsubs'), <<>>, <<>>, <<>>, <<>>)
        /\ UNCHANGED <<channelMap, remoteAckMap, listeners, live, envOf>>
        /\ UNCHANGED <<bufVars, dispVars>>

\* the closure returned by the k-th addEventListener call is invoked
Unsubscribe(k) ==
    /\ onListeners' = removeListener(onListeners, unsubs[k].eventString, unsubs[k].listener)
    /\ unsubs' = [unsubs EXCEPT ![k].invoked = TRUE]
    /\ last' = Effect("unsubscribe", [closure |-> k, again |-> unsubs[k].invoked],
                      Absent, <<>>, <<>>, <<>>, <<>>)
    /\ UNCHANGED <<channelMap, remoteAckMap, listeners, live, envOf>>
    /\ UNCHANGED <<bufVars, dispVars>>

\* subscriptionProvider.channel.subscribe (lines 147-172): the listener is
\* registered locally and, when line 155 asks for it, the subscription to
\* all runtimes is requested; remoteUnSub stays unassigned until the
\* request resolves
Subscribe(targetIdentity, type, listener, requested) ==
    /\ AddEventListener(targetIdentity, type, listener)
    /\ remoteSubs' = Append(remoteSubs,
                            [local |-> Len(unsubs) + 1,
                             remote |-> IF requested THEN "pending" ELSE "none",
                             remoteUnSub |-> FALSE,
                             invoked |-> FALSE])

\* the request of subscribeToAllRuntimes resolves (lines 161-163): the
\* remote subscription is active and remoteUnSub is assigned
ResolveRemote(j) ==
    /\ remoteSubs[j].remote = "pending"
    /\ remoteSubs' = [remoteSubs EXCEPT ![j] = [remoteSubs[j] EXCEPT
                                                 !.remote = "active",
                                                 !.remoteUnSub = TRUE]]
    /\ last' = Effect("resolveRemote", [subscription |-> j], Absent,
                      <<>>, <<>>, <<>>, <<>>)
    /\ UNCHANGED <<onListeners, unsubs>>
    /\ UNCHANGED <<chanVars, bufVars, dispVars>>

\* the closure subscribe returned is invoked (lines 166-171): localUnsub(),
\* then remoteUnSub() when it is a function by now
SubscriptionClosure(j) ==
    /\ Unsubscribe(remoteSubs[j].local)
    /\ remoteSubs' = [remoteSubs EXCEPT ![j] = [remoteSubs[j] EXCEPT
            !.invoked = TRUE,
            !.remote = IF remoteSubs[j].remoteUnSub /\ remoteSubs[j].remote = "active"
                       THEN "inactive" ELSE remoteSubs[j].remote]]

\* a call of Channel.getChannelByChannelName
GetChannelByChannelName(channelName) ==
    /\ last' = Effect("getChannelByChannelName", [channelName |-> channelName],
                      getChannelByChannelName(channelName), <<>>, <<>>, <<>>, <<>>)
    /\ UNCHANGED <<chanVars, bufVars, dispVars, subVars>>

(***************************************************************************)
(* ofEvents: a "closed" notification runs the one-shot watches armed for   *)
(* it, in registration order, and disarms them                             *)
(***************************************************************************)
RECURSIVE RunWatches(_, _, _)
\* ws: the watches to run; m: the channel map so far; ev: the events so far
RunWatches(ws, m, ev) ==
    IF ws = <<>> THEN [map |-> m, events |-> ev]
    ELSE LET w == Head(ws)
         IN  RunWatches(Tail(ws),
                        MapDelete(m, w.providerIdentity.channelId),
                        IF w.emits
                        THEN Append(ev, [type |-> "channel-disconnected",
                                         payload |-> w.providerIdentity])
                        ELSE ev)

\* the closed notifications of the environment: of a window, of an external
\* connection, of an application
ClosedEvents ==
    {closedEvent(e) : e \in Entities} \cup {appClosedEvent(e.uuid) : e \in Windows}

\* the entities that stop resolving when the notification is about them
ClosedEntities(event) ==
    IF event.topic = "application"
    THEN {e \in Entities : ~e.isExternal /\ e.uuid = event.uuid}
    ELSE {e \in Entities : closedEvent(e) = event}

\* mutant: the watches stay armed after they have run
ClosedKeepsWatches(event) ==
    LET fired == SelectAt(listeners, {i \in 1..Len(listeners) : listeners[i].event = event})
        run == RunWatches(fired, channelMap, <<>>)
    IN  /\ channelMap' = run.map
        /\ live' = live \ ClosedEntities(event)
        /\ last' = Effect("closed", [event |-> event], Absent, <<>>, <<>>, <<>>, run.events)
        /\ UNCHANGED <<remoteAckMap, envOf, listeners>>
        /\ UNCHANGED <<bufVars, dispVars, subVars>>

\* mutant: the teardown also forgets the calls pending on the table
ClosedDropsPending(event) ==
    LET fired == SelectAt(listeners, {i \in 1..Len(listeners) : listeners[i].event = event})
        run == RunWatches(fired, channelMap, <<>>)
    IN  /\ channelMap' = run.map
        /\ listeners' = SelectAt(listeners, {i \in 1..Len(listeners) : listeners[i].event # event})
        /\ live' = live \ ClosedEntities(event)
        /\ remoteAckMap' = IF fired = <<>> THEN remoteAckMap ELSE <<>>
        /\ envOf' = IF fired = <<>> THEN envOf ELSE [c \in CallIds |-> NoEnv]
        /\ last' = Effect("closed", [event |-> event], Absent, <<>>, <<>>, <<>>, run.events)
        /\ UNCHANGED <<bufVars, dispVars, subVars>>

Closed(event) ==
    LET fired == SelectAt(listeners, {i \in 1..Len(listeners) : listeners[i].event = event})
        run == RunWatches(fired, channelMap, <<>>)
    IN  /\ channelMap' = run.map
        /\ listeners' = SelectAt(listeners, {i \in 1..Len(listeners) : listeners[i].event # event})
        /\ live' = live \ ClosedEntities(event)
        /\ last' = Effect("closed", [event |-> event], Absent, <<>>, <<>>, <<>>, run.events)
        /\ UNCHANGED <<remoteAckMap, envOf>>
        /\ UNCHANGED <<bufVars, dispVars, subVars>>

\* an application or external connection (re)starts: its entity resolves again
Launch(entity) ==
    /\ entity \notin live
    /\ live' = live \cup {entity}
    /\ last' = Effect("launch", [entity |-> entity], Absent, <<>>, <<>>, <<>>, <<>>)
    /\ UNCHANGED <<channelMap, remoteAckMap, listeners, envOf>>
    /\ UNCHANGED <<bufVars, dispVars, subVars>>

(***************************************************************************)
(* Channel.connectToChannel                                                *)
(***************************************************************************)
ConnectPayloads ==
    {p \in [uuid : {Undef, S("app1")}, name : {Undef, S("win1")},
            channelName : ChannelNames] : p.uuid = Undef => p.name = Undef}

AmbiguousMessage(uuid, name) ==
    "More than one channel found for provider with identity: "
        \o (IF Truthy(name) THEN uuid[1] \o "/" \o name[1] ELSE uuid[1])
        \o ", please include a channelName"

\* mutant: the identity is consulted even when the channelName resolved
ResolveProviderIdentityAlways(payload) ==
    LET byName == IF Truthy(payload.channelName)
                  THEN getChannelByChannelName(payload.channelName)
                  ELSE Absent
        providerIdentityArray ==
            IF Truthy(payload.uuid)
            THEN getChannelByIdentity([uuid |-> payload.uuid[1], name |-> payload.name])
            ELSE <<>>
    IN  IF Len(providerIdentityArray) > 1
        THEN [providerIdentity |-> Absent,
              nacks |-> <<AmbiguousMessage(payload.uuid, payload.name)>>]
        ELSE [providerIdentity |-> IF byName # Absent THEN byName
                                   ELSE IF providerIdentityArray = <<>> THEN Absent
                                   ELSE providerIdentityArray[1],
              nacks |-> <<>>]

\* mutant: the first of several candidates is taken without a nack
ResolveProviderFirstCandidate(payload) ==
    LET byName == IF Truthy(payload.channelName)
                  THEN getChannelByChannelName(payload.channelName)
                  ELSE Absent
        providerIdentityArray ==
            IF byName = Absent /\ Truthy(payload.uuid)
            THEN getChannelByIdentity([uuid |-> payload.uuid[1], name |-> payload.name])
            ELSE <<>>
    IN  [providerIdentity |-> IF byName # Absent THEN byName
                              ELSE IF providerIdentityArray = <<>> THEN Absent
                              ELSE providerIdentityArray[1],
         nacks |-> <<>>]

\* mutant: a request that gives a channelName is resolved by name only
ResolveProviderNameOnly(payload) ==
    LET byName == IF Truthy(payload.channelName)
                  THEN getChannelByChannelName(payload.channelName)
                  ELSE Absent
        useIdentity == ~Truthy(payload.channelName) /\ Truthy(payload.uuid)
        providerIdentityArray ==
            IF useIdentity
            THEN getChannelByIdentity([uuid |-> payload.uuid[1], name |-> payload.name])
            ELSE <<>>
    IN  IF ~useIdentity
        THEN [providerIdentity |-> byName, nacks |-> <<>>]
        ELSE IF Len(providerIdentityArray) > 1
        THEN [providerIdentity |-> Absent,
              nacks |-> <<AmbiguousMessage(payload.uuid, payload.name)>>]
        ELSE [providerIdentity |-> IF providerIdentityArray = <<>> THEN Absent
                                   ELSE providerIdentityArray[1],
              nacks |-> <<>>]

\* lines 132-146: the provider the request resolves to, and the nack issued
\* on the way
ResolveProvider(payload) ==
    LET byName == IF Truthy(payload.channelName)
                  THEN getChannelByChannelName(payload.channelName)
                  ELSE Absent
        useIdentity == byName = Absent /\ Truthy(payload.uuid)
        providerIdentityArray ==
            IF useIdentity
            THEN getChannelByIdentity([uuid |-> payload.uuid[1], name |-> payload.name])
            ELSE <<>>
    IN  IF ~useIdentity
        THEN [providerIdentity |-> byName, nacks |-> <<>>]
        ELSE IF Len(providerIdentityArray) > 1
        THEN [providerIdentity |-> Absent,
              nacks |-> <<AmbiguousMessage(payload.uuid, payload.name)>>]
        ELSE [providerIdentity |-> IF providerIdentityArray = <<>> THEN Absent
                                   ELSE providerIdentityArray[1],
              nacks |-> <<>>]

ConnectToChannel(identity, payload, messageId) ==
    LET cb == FreshCb
        res == ResolveProvider(payload)
        providerIdentity == res.providerIdentity
        ackKey == getAckKey(messageId, identity)
        ackToSender == createAckToSender(identity, messageId, providerIdentity)
        arg == [identity |-> identity, payload |-> payload, messageId |-> messageId, cb |-> cb]
        early == [i \in 1..Len(res.nacks) |-> [cb |-> cb, message |-> res.nacks[i]]]
    IN  /\ HasFreshCb
        /\ IF providerIdentity # Absent
           THEN /\ remoteAckMap' = AckSet(remoteAckMap, ackKey, cb)
                /\ envOf' = EnvAfter(remoteAckMap', cb,
                                     [correlationId |-> ackToSender.payload.correlationId,
                                      destinationToken |-> Wire(ackToSender.payload.destinationToken)])
                /\ last' = Effect("connectToChannel", arg, providerIdentity, <<>>, early,
                                  <<[to |-> [uuid |-> providerIdentity.uuid,
                                             name |-> providerIdentity.name],
                                     action |-> CHANNEL_CONNECT_ACTION,
                                     ackToSender |-> ackToSender,
                                     providerIdentity |-> providerIdentity,
                                     clientIdentity |-> identity]>>,
                                  <<>>)
           ELSE /\ last' = Effect("connectToChannel", arg, Absent, <<>>,
                                  Append(early, [cb |-> cb, message |-> "internal-nack"]),
                                  <<>>, <<>>)
                /\ UNCHANGED <<remoteAckMap, envOf>>
        /\ UNCHANGED <<channelMap, listeners, live>>
        /\ UNCHANGED <<bufVars, dispVars, subVars>>

(***************************************************************************)
(* Channel.sendChannelMessage                                              *)
(***************************************************************************)
SendChannelMessage(identity, target, messageId) ==
    LET cb == FreshCb
        ackKey == getAckKey(messageId, identity)
        targetIdentity == [uuid |-> target.uuid, name |-> target.name]
        ackToSender == createAckToSender(identity, messageId, Absent)
        arg == [identity |-> identity, payload |-> target, messageId |-> messageId, cb |-> cb]
    IN  /\ HasFreshCb
        /\ remoteAckMap' = AckSet(remoteAckMap, ackKey, cb)
        /\ envOf' = EnvAfter(remoteAckMap', cb,
                             [correlationId |-> ackToSender.payload.correlationId,
                              destinationToken |-> Wire(ackToSender.payload.destinationToken)])
        /\ last' = Effect("sendChannelMessage", arg, Absent, <<>>, <<>>,
                          <<[to |-> targetIdentity,
                             action |-> CHANNEL_APP_ACTION,
                             ackToSender |-> ackToSender,
                             providerIdentity |-> Absent,
                             clientIdentity |-> identity]>>,
                          <<>>)
        /\ UNCHANGED <<channelMap, listeners, live>>
        /\ UNCHANGED <<bufVars, dispVars, subVars>>

(***************************************************************************)
(* Channel.sendChannelResult                                               *)
(***************************************************************************)
ResultPayloads ==
    [success : {TRUE}, reason : {Undef}, destinationToken : Requesters,
     correlationId : MessageIds, payload : Payloads]
    \cup
    [success : {FALSE}, reason : Reasons, destinationToken : Requesters,
     correlationId : MessageIds, payload : {Undef}]

\* { success: true, ...(ackPayload ? { data: ackPayload } : {}) }
SuccessAck(ackPayload) ==
    [success |-> TRUE, data |-> IF Truthy(ackPayload) THEN ackPayload ELSE Undef]

\* mutant: the reason the provider gave is not passed on
ProviderErrorDefaultOnly(reason) == "Channel provider error"

\* new Error(reason || 'Channel provider error')
ProviderError(reason) ==
    IF Truthy(reason) THEN reason[1] ELSE "Channel provider error"

OrphanMessage == "Ack failed, initial channel message not found."

SendChannelResult(identity, payload) ==
    LET ackKey == getAckKey(payload.correlationId, payload.destinationToken)
        arg == [identity |-> identity, payload |-> payload, cb |-> Reporter]
    IN  /\ IF AckHas(remoteAckMap, ackKey)
           THEN LET remoteAck == remoteAckMap[ackKey]
                IN  /\ remoteAckMap' = AckDelete(remoteAckMap, ackKey)
                    /\ envOf' = EnvAfter(remoteAckMap', Reporter, NoEnv)
                    /\ last' = IF payload.success
                               THEN Effect("sendChannelResult", arg, Absent,
                                           <<[cb |-> remoteAck,
                                              payload |-> SuccessAck(payload.payload)]>>,
                                           <<>>, <<>>, <<>>)
                               ELSE Effect("sendChannelResult", arg, Absent, <<>>,
                                           <<[cb |-> remoteAck,
                                              message |-> ProviderError(payload.reason)]>>,
                                           <<>>, <<>>)
           ELSE /\ last' = Effect("sendChannelResult", arg, Absent, <<>>,
                                  <<[cb |-> Reporter, message |-> OrphanMessage]>>,
                                  <<>>, <<>>)
                /\ UNCHANGED <<remoteAckMap, envOf>>
        /\ UNCHANGED <<channelMap, listeners, live>>
        /\ UNCHANGED <<bufVars, dispVars, subVars>>

(***************************************************************************)
(* elipc_strategy.ts: the outbound buffering layer                         *)
(***************************************************************************)
\* the destinations of outbound messages: the main frame of window 1 and a
\* sub frame of window 2
DestA == [uuid |-> "app1", name |-> S("win1")]

DestB == [uuid |-> "app1", name |-> S("frame2")]

Dests == {DestA, DestB}

\* coreState.getRoutingInfoByUuidFrame while the window is open
RoutingOf(identity) ==
    IF identity = DestA
    THEN [browserWindow |-> [id |-> 1, destroyed |-> FALSE],
          frameRoutingId |-> 1, mainFrameRoutingId |-> 1]
    ELSE [browserWindow |-> [id |-> 2, destroyed |-> FALSE],
          frameRoutingId |-> 3, mainFrameRoutingId |-> 1]

\* the payload objects handed to send
PayloadObjs == {"m1", "m2"}

\* JSON.stringify of a payload object
Json(obj) == <<"json", obj>>

FrameStrategies == {"default", "frames"}

\* `${(!browserWindow.isDestroyed() ? browserWindow.id : -1)} - ${frameRoutingId}`
bufferKey(browserWindow, frameRoutingId) ==
    (IF ~browserWindow.destroyed THEN ToString(browserWindow.id) ELSE "-1")
        \o " - " \o ToString(frameRoutingId)

\* the frame routing ids a routing info can carry
FrameRoutingIds == 0..9

\* typeof v === 'number': the value prints as one of the numbers, which a
\* string, undefined or an object never does
TypeofNumber(v) == ToString(v) \in {ToString(n) : n \in FrameRoutingIds}

\* canTrySend: browserWindow.isDestroyed() is read before anything is
\* tested, so a routing info without a browserWindow throws a TypeError;
\* otherwise the window object is truthy and the answer is whether it is
\* open and the frameRoutingId is a number
canTrySend(routingInfo) ==
    IF routingInfo.browserWindow = Undef
    THEN Threw("TypeError")
    ELSE LET browserWindowLocated == TRUE
             browserWindowExists == ~routingInfo.browserWindow.destroyed
             validRoutingId == TypeofNumber(routingInfo.frameRoutingId)
         IN  Returned(browserWindowLocated /\ browserWindowExists /\ validRoutingId)

\* the transport primitive innerSend reaches for
innerSend(payload, frameRoutingId, mainFrameRoutingId, browserWindow) ==
    IF frameRoutingId = mainFrameRoutingId
    THEN IF framestrategy = "frames"
         THEN [via |-> "webContents.sendToFrame", window |-> browserWindow.id,
               frame |-> frameRoutingId, payload |-> payload]
         ELSE [via |-> "browserWindow.send", window |-> browserWindow.id,
               frame |-> frameRoutingId, payload |-> payload]
    ELSE [via |-> "webContents.sendToFrame", window |-> browserWindow.id,
          frame |-> frameRoutingId, payload |-> payload]

\* delayedMessageHandler for one group returns its sends: none when the
\* routing info is missing or the window is not reachable, else one batch;
\* it throws when canTrySend throws
delayedMessageHandler(bufferedMessages) ==
    LET routingInfo == routing[bufferedMessages.identity]
    IN  IF routingInfo = Absent THEN Returned(<<>>)
        ELSE IF canTrySend(routingInfo).threw # Undef THEN canTrySend(routingInfo)
        ELSE IF ~canTrySend(routingInfo).value THEN Returned(<<>>)
        ELSE Returned(<<innerSend(Json([action |-> "process-api-batch",
                                        payload |-> [messages |-> bufferedMessages.messages]]),
                                  routingInfo.frameRoutingId,
                                  routingInfo.mainFrameRoutingId,
                                  routingInfo.browserWindow)>>)

RECURSIVE FlushRun(_)
\* the forEach of flush over the groups, in key order: each group is handed
\* to the handler and then emptied; a throw of the handler ends the loop,
\* so the group it met and the ones after it stay as they are
FlushRun(groups) ==
    IF groups = <<>> THEN [sent |-> <<>>, groups |-> <<>>, threw |-> Undef]
    ELSE LET handled == delayedMessageHandler(Head(groups))
             rest == FlushRun(Tail(groups))
         IN  IF handled.threw # Undef
             THEN [sent |-> <<>>, groups |-> groups, threw |-> handled.threw]
             ELSE [sent |-> handled.value \o rest.sent,
                   groups |-> <<[Head(groups) EXCEPT !.messages = <<>>]>> \o rest.groups,
                   threw |-> rest.threw]


HasGroup(groups, key) == \E i \in 1..Len(groups) : groups[i].key = key

\* pendingMessages after add: the group of the key is created on first use
\* and the payload pushed on its messages
AddTo(groups, key, identity, frameRoutingId, payload) ==
    IF HasGroup(groups, key)
    THEN [i \in 1..Len(groups) |->
            IF groups[i].key = key
            THEN [groups[i] EXCEPT !.messages = Append(@, payload)]
            ELSE groups[i]]
    ELSE Append(groups, [identity |-> identity, frameRoutingId |-> frameRoutingId,
                         key |-> key, messages |-> <<payload>>])

\* setImmediate in add: a flush is queued unless one is pending
ScheduledAfterAdd == IF ~pendingFlush THEN immediates + 1 ELSE immediates

\* the number of payloads queued for a key
Queued(groups, key) ==
    IF HasGroup(groups, key)
    THEN Len(groups[CHOOSE i \in 1..Len(groups) : groups[i].key = key].messages)
    ELSE 0

\* ElipcStrategy.send
Send(identity, payloadObj) ==
    LET routingInfo == routing[identity]
        payload == Json(payloadObj)
        arg == [identity |-> identity, payloadObj |-> payloadObj]
    IN  IF routingInfo = Absent
        THEN /\ last' = Effect("send", arg, Absent, <<>>, <<>>, <<>>, <<>>)
             /\ UNCHANGED bufVars
        ELSE LET key == bufferKey(routingInfo.browserWindow, routingInfo.frameRoutingId)
             IN  /\ Queued(pendingMessages, key) < MaxBatch
                 /\ ScheduledAfterAdd <= MaxImmediates
                 /\ pendingMessages' = AddTo(pendingMessages, key, identity,
                                             routingInfo.frameRoutingId, payload)
                 /\ immediates' = ScheduledAfterAdd
                 /\ last' = Effect("send", arg, key, <<>>, <<>>, <<>>, <<>>)
                 /\ UNCHANGED <<pendingFlush, routing, framestrategy>>

\* mutant: the payloads of a group that could not be delivered stay queued
FlushKeepsUndelivered ==
    /\ immediates > 0
    /\ immediates' = immediates - 1
    /\ pendingMessages' = [i \in 1..Len(pendingMessages) |->
                              IF delayedMessageHandler(pendingMessages[i]).value = <<>>
                              THEN pendingMessages[i]
                              ELSE [pendingMessages[i] EXCEPT !.messages = <<>>]]
    /\ pendingFlush' = FALSE
    /\ last' = Effect("flush", [groups |-> pendingMessages], Absent, <<>>, <<>>,
                      FlushRun(pendingMessages).sent, <<>>)
    /\ UNCHANGED <<routing, framestrategy>>

\* a queued flush callback runs: bufferedMessageHandler.flush.  When the
\* handler throws, the loop ends there and pendingFlush is not assigned
Flush ==
    LET run == FlushRun(pendingMessages)
    IN  /\ immediates > 0
        /\ immediates' = immediates - 1
        /\ pendingMessages' = run.groups
        /\ pendingFlush' = IF run.threw # Undef THEN pendingFlush ELSE FALSE
        /\ last' = Effect("flush", [groups |-> pendingMessages],
                          IF run.threw # Undef THEN run.threw ELSE Absent,
                          <<>>, <<>>, run.sent, <<>>)
        /\ UNCHANGED <<routing, framestrategy>>

\* the window of a destination is destroyed
DestroyWindow(identity) ==
    /\ routing[identity] # Absent
    /\ ~routing[identity].browserWindow.destroyed
    /\ routing' = [routing EXCEPT ![identity].browserWindow.destroyed = TRUE]
    /\ last' = Effect("destroyWindow", [identity |-> identity], Absent, <<>>, <<>>, <<>>, <<>>)
    /\ UNCHANGED <<pendingMessages, pendingFlush, immediates, framestrategy>>

\* core_state forgets the routing info of a destination
RemoveRouting(identity) ==
    /\ routing[identity] # Absent
    /\ routing' = [routing EXCEPT ![identity] = Absent]
    /\ last' = Effect("removeRouting", [identity |-> identity], Absent, <<>>, <<>>, <<>>, <<>>)
    /\ UNCHANGED <<pendingMessages, pendingFlush, immediates, framestrategy>>

InitBuffer ==
    /\ pendingMessages = <<>>
    /\ pendingFlush = FALSE
    /\ immediates = 0
    /\ routing = [d \in Dests |-> RoutingOf(d)]

(***************************************************************************)
(* elipc_strategy.ts: the request dispatch pipeline                        *)
(*                                                                         *)
(* An acknowledgement is an invocation of the ack closure of a message;    *)
(* nack is nackDecorator(ack) and goes through the same closure.           *)
(***************************************************************************)
\* the identity of the window whose frame sends the inbound messages: the
\* owner window of e.sender
Sender == DestA

\* what a handler does with the ack and nack it is given, and how it ends
Behaviours == [calls : {"none", "ack", "nack"}, outcome : {"undefined", "value", "throw"}]

\* the behaviours of the handlers of sub-messages: the two conventions,
\* both at once, and neither
SubBehaviours ==
    {[calls |-> "ack", outcome |-> "undefined"],
     [calls |-> "none", outcome |-> "throw"],
     [calls |-> "ack", outcome |-> "value"],
     [calls |-> "none", outcome |-> "undefined"]}

\* an inbound message: its action is in the action map or not, isSync,
\* singleFrameOnly ("undefined", "true" or "false") and the answer of
\* e.sender.isValidWithFrameConnect
Message(messageId, action, isSync, singleFrameOnly, valid) ==
    [messageId |-> messageId, action |-> action, isSync |-> isSync,
     singleFrameOnly |-> singleFrameOnly, valid |-> valid]

PlainMessageId == 5

TransactionMessageId == 9

\* the plain messages: an unregistered action, or a registered one, sync or
\* not, from a valid frame or from a superseded frame with every
\* singleFrameOnly
PlainMessages ==
    {Message(PlainMessageId, "unknown-action", FALSE, "undefined", TRUE)} \cup
    {Message(PlainMessageId, "known-action", isSync, "undefined", TRUE) :
        isSync \in BOOLEAN} \cup
    {Message(PlainMessageId, "known-action", FALSE, sfo, FALSE) :
        sfo \in {"undefined", "true", "false"}}

\* the shapes of the sub-messages of a transaction
SubShapes ==
    {Message(0, "unknown-action", FALSE, "undefined", TRUE),
     Message(0, "known-action", TRUE, "undefined", TRUE),
     Message(0, "known-action", TRUE, "undefined", FALSE),
     Message(0, "known-action", FALSE, "undefined", FALSE),
     Message(0, "known-action", FALSE, "undefined", TRUE)}

\* data.payload.messages of an 'api-transaction': the i-th sub-message has
\* messageId i
Transactions ==
    UNION {[1..n -> SubShapes] : n \in 0..MaxRequests}

NumberSubs(shapes) == [i \in 1..Len(shapes) |-> [shapes[i] EXCEPT !.messageId = i]]

NoTx == [total |-> -1]

SupersededMessage == "API access has been superseded by another frame in this window."

bypassLocalFrameConnect == framestrategy = "frames"

\* the frame-origin gate (lines 57-59)
GatePasses(data) ==
    \/ bypassLocalFrameConnect
    \/ (~(data.singleFrameOnly = "true")) = FALSE
    \/ data.valid

\* e.sender.isDestroyed(): the web contents of the sender, which is not the
\* isDestroyed() of its owner window
senderIsDestroyed == senderDestroyed

\* new AckPayload(result)
AckPayload(result) == [success |-> TRUE, data |-> result]

\* the payload nackDecorator hands to ack
NackPayload(err) == [success |-> FALSE, reason |-> err]

\* the closure of ackDecorator: the ack object is queued for the sender
\* unless the sender is destroyed, under the key of its owner window, which
\* is -1 when that window is destroyed
ackDecorator(messageId, payload, st) ==
    IF senderIsDestroyed THEN st
    ELSE LET routingInfo == routing[Sender]
             key == bufferKey(routingInfo.browserWindow, routingInfo.frameRoutingId)
         IN  [st EXCEPT
                !.groups = AddTo(@, key, Sender, routingInfo.frameRoutingId,
                                 Json([correlationId |-> messageId, payload |-> payload])),
                !.imm = IF ~pendingFlush THEN @ + 1 ELSE @,
                !.emitted = @ + 1]

\* the closure of ackDecoratorSync: the ack object becomes the return value
\* of the call
ackDecoratorSync(messageId, payload, st) ==
    IF senderIsDestroyed THEN st
    ELSE [st EXCEPT !.returnValue =
              S(Json([correlationId |-> messageId, payload |-> payload])),
                    !.emitted = @ + 1]

\* deferredAcks.length === totalAcksExpected
DeferredFires(count, totalAcksExpected) == count = totalAcksExpected

\* mutant: the ack objects are kept in the order of the sub-messages
ackDelegateInRequestOrder(messageId, payload, st) ==
    LET filled == [i \in 1..Len(st.tx.deferredAcks) |->
                      IF st.tx.deferredAcks[i].correlationId = messageId
                      THEN [correlationId |-> messageId, payload |-> payload]
                      ELSE st.tx.deferredAcks[i]]
        pos == Cardinality({i \in 1..Len(filled) : filled[i].correlationId <= messageId})
        pushed == SubSeq(filled, 1, pos)
                      \o <<[correlationId |-> messageId, payload |-> payload]>>
                      \o SubSeq(filled, pos + 1, Len(filled))
        st1 == [st EXCEPT !.tx.deferredAcks = pushed]
        sent == ackDecorator(st.tx.messageId, [success |-> TRUE, data |-> pushed],
                             [st1 EXCEPT !.tx.aggregates = Append(@, pushed)])
    IN  IF DeferredFires(Len(pushed), st.tx.total)
        THEN [sent EXCEPT !.tx.emitted = @ + (sent.emitted - st1.emitted)]
        ELSE st1

\* the closure ackDecoratorDeferred makes for a sub-message: its ack object
\* is (re)filled and pushed, and the N-th push sends the aggregate through
\* mainAck; tx.emitted counts the aggregates mainAck has queued for the
\* sender, which the ack of a sub-message with isSync never adds to
ackDelegate(messageId, payload, st) ==
    LET filled == [i \in 1..Len(st.tx.deferredAcks) |->
                      IF st.tx.deferredAcks[i].correlationId = messageId
                      THEN [correlationId |-> messageId, payload |-> payload]
                      ELSE st.tx.deferredAcks[i]]
        pushed == Append(filled, [correlationId |-> messageId, payload |-> payload])
        st1 == [st EXCEPT !.tx.deferredAcks = pushed]
        sent == ackDecorator(st.tx.messageId, [success |-> TRUE, data |-> pushed],
                             [st1 EXCEPT !.tx.aggregates = Append(@, pushed)])
    IN  IF DeferredFires(Len(pushed), st.tx.total)
        THEN [sent EXCEPT !.tx.emitted = @ + (sent.emitted - st1.emitted)]
        ELSE st1

\* the ack of a message (line 220): sync, delegated to the transaction, or
\* direct
AckOf(m, payload, st) ==
    IF m.isSync THEN ackDecoratorSync(m.messageId, payload, st)
    ELSE IF m.inTx THEN ackDelegate(m.messageId, payload, st)
    ELSE ackDecorator(m.messageId, payload, st)

RECURSIVE ApplyCalls(_, _, _)
\* the calls of ack and nack made for message m, in order
ApplyCalls(m, calls, st) ==
    IF calls = <<>> THEN st
    ELSE ApplyCalls(m, Tail(calls),
                    AckOf(m,
                          IF Head(calls).fn = "ack" THEN Head(calls).payload
                          ELSE NackPayload(Head(calls).payload),
                          st))

\* what the handler itself calls
HandlerCalls(behaviour) ==
    IF behaviour.calls = "ack" THEN <<[fn |-> "ack", payload |-> [success |-> TRUE]]>>
    ELSE IF behaviour.calls = "nack" THEN <<[fn |-> "nack", payload |-> "handler-nack"]>>
    ELSE <<>>

\* mutant: the returned value is acknowledged even when it is undefined
PipelineCallsAlways(behaviour) ==
    IF behaviour.outcome = "throw" THEN <<[fn |-> "nack", payload |-> "error"]>>
    ELSE <<[fn |-> "ack", payload |-> AckPayload(behaviour.outcome)]>>

\* mutant: a throw of the handler is swallowed
PipelineCallsSwallowsThrow(behaviour) ==
    IF behaviour.outcome = "value"
    THEN <<[fn |-> "ack", payload |-> AckPayload(behaviour.outcome)]>>
    ELSE <<>>

\* what the pipeline calls when the handler has returned or thrown
\* (lines 62-69)
PipelineCalls(behaviour) ==
    IF behaviour.outcome = "throw" THEN <<[fn |-> "nack", payload |-> "error"]>>
    ELSE IF behaviour.outcome # "undefined"
    THEN <<[fn |-> "ack", payload |-> AckPayload(behaviour.outcome)]>>
    ELSE <<>>

Only(calls, fn) == SelectAt(calls, {i \in 1..Len(calls) : calls[i].fn = fn})

\* the state the closures work on, and the number of ack objects they
\* have handed to the sender
Closures == [tx |-> tx, groups |-> pendingMessages, imm |-> immediates,
             returnValue |-> Undef, emitted |-> 0]

FitsBuffer(st) ==
    /\ st.imm <= MaxImmediates
    /\ \A i \in 1..Len(st.groups) : Len(st.groups[i].messages) <= MaxPendingAcks

\* mutant: a message of an unregistered action is nacked
HandleNacksUnknown(m, acc) ==
    IF m.action = "unknown-action"
    THEN [acc EXCEPT
            !.st = ApplyCalls(m, <<[fn |-> "nack", payload |-> "unknown action"]>>, @),
            !.nacks = Append(@, "unknown action")]
    ELSE IF GatePasses(m)
    THEN [acc EXCEPT !.reqs = Append(@, m)]
    ELSE [acc EXCEPT
            !.st = ApplyCalls(m, <<[fn |-> "nack", payload |-> SupersededMessage]>>, @),
            !.nacks = Append(@, SupersededMessage)]

\* the request handler (lines 47-75) for one message: dropped when the
\* action is not registered, nacked when the gate rejects, else the
\* handler invocation is queued
Handle(m, acc) ==
    IF m.action = "unknown-action" THEN acc
    ELSE IF GatePasses(m)
    THEN [acc EXCEPT !.reqs = Append(@, m)]
    ELSE [acc EXCEPT
            !.st = ApplyCalls(m, <<[fn |-> "nack", payload |-> SupersededMessage]>>, @),
            !.nacks = Append(@, SupersededMessage)]

RECURSIVE HandleAll(_, _)
HandleAll(ms, acc) ==
    IF ms = <<>> THEN acc ELSE HandleAll(Tail(ms), Handle(Head(ms), acc))

InTx(m, flag) ==
    [messageId |-> m.messageId, action |-> m.action, isSync |-> m.isSync,
     singleFrameOnly |-> m.singleFrameOnly, valid |-> m.valid, inTx |-> flag]

\* no handler, queued or called, holds the deferred acknowledgement of the
\* transaction any more
TransactionOver ==
    /\ \A i \in 1..Len(reqs) : ~reqs[i].inTx
    /\ \A j \in 1..Len(running) : ~running[j].message.inTx

\* the handler acknowledges once: it calls ack or nack and returns
\* undefined, or it calls neither and returns a value or throws
OneConvention(behaviour) ==
    \/ behaviour.calls # "none" /\ behaviour.outcome = "undefined"
    \/ behaviour.calls = "none" /\ behaviour.outcome # "undefined"

\* onMessage for a message that is not a transaction
OnMessage(data) ==
    LET m == InTx(data, FALSE)
        acc == Handle(m, [st |-> Closures, reqs |-> reqs, nacks |-> <<>>])
    IN  /\ Len(acc.reqs) + Len(running) <= MaxRequests
        /\ FitsBuffer(acc.st)
        /\ reqs' = acc.reqs
        /\ tx' = acc.st.tx
        /\ pendingMessages' = acc.st.groups
        /\ immediates' = acc.st.imm
        /\ last' = Effect("onMessage", [message |-> m, emitted |-> acc.st.emitted],
                          acc.st.returnValue, <<>>, acc.nacks, <<>>, <<>>)
        /\ UNCHANGED <<running, senderDestroyed, pendingFlush, routing, framestrategy>>

RECURSIVE Pending(_)
\* the number of ack objects queued for the sender, under the key of its
\* owner window and under the key it has once that window is destroyed
Pending(groups) ==
    IF groups = <<>> THEN 0 ELSE Len(Head(groups).messages) + Pending(Tail(groups))

\* onMessage for an 'api-transaction' (lines 249-255): one deferred
\* acknowledgement is shared by the sub-messages, which are handled in
\* order.  Its mainAck is the closure of ackDecorator whatever the isSync of
\* the transaction: the closure line 220 builds for the transaction itself
\* is not used.  tx keeps the array of the deferred acknowledgement, the
\* aggregates it has handed to mainAck, how many of them were queued for
\* the sender and how many handlers have ended.  A transaction arrives
\* when the one before is over and its acknowledgement flushed.
OnTransaction(isSync, shapes) ==
    LET subs == [i \in 1..Len(shapes) |-> InTx(NumberSubs(shapes)[i], TRUE)]
        deferred == [messageId |-> TransactionMessageId, isSync |-> isSync,
                     total |-> Len(shapes),
                     deferredAcks |-> <<>>, aggregates |-> <<>>, emitted |-> 0,
                     invoked |-> 0, completed |-> 0]
        acc == HandleAll(subs, [st |-> [Closures EXCEPT !.tx = deferred],
                                reqs |-> reqs, nacks |-> <<>>])
    IN  /\ TransactionOver
        /\ Pending(pendingMessages) = 0
        /\ Len(acc.reqs) <= MaxRequests
        /\ FitsBuffer(acc.st)
        /\ reqs' = acc.reqs
        /\ tx' = [acc.st.tx EXCEPT !.invoked = Len(acc.reqs) - Len(reqs)]
        /\ pendingMessages' = acc.st.groups
        /\ immediates' = acc.st.imm
        /\ last' = Effect("onTransaction", [isSync |-> isSync, subs |-> subs],
                          acc.st.returnValue,
                          <<>>, acc.nacks, <<>>, <<>>)
        /\ UNCHANGED <<running, senderDestroyed, pendingFlush, routing, framestrategy>>

\* the handler of a queued invocation is called (line 61) and makes its
\* own calls of ack and nack; handlers may be asynchronous, so the calls of
\* different handlers come in any order and how a handler ends is not
\* settled yet
Invoke(i, calls) ==
    LET m == reqs[i]
        own == HandlerCalls([calls |-> calls])
        st == ApplyCalls(m, own, Closures)
    IN  /\ FitsBuffer(st)
        /\ reqs' = SelectAt(reqs, (1..Len(reqs)) \ {i})
        /\ running' = Append(running, [message |-> m, calls |-> calls])
        /\ tx' = st.tx
        /\ pendingMessages' = st.groups
        /\ immediates' = st.imm
        /\ last' = Effect("invoke", [message |-> m, calls |-> calls,
                                     emitted |-> st.emitted], st.returnValue,
                          Only(own, "ack"), Only(own, "nack"), <<>>, <<>>)
        /\ UNCHANGED <<senderDestroyed, pendingFlush, routing, framestrategy>>

\* the promise of a called handler settles and the pipeline turns its
\* outcome into an acknowledgement (lines 62-69), a later turn than the
\* calls the handler made itself
Settle(j, behaviour) ==
    LET m == running[j].message
        calls == PipelineCalls(behaviour)
        counted == IF m.inTx THEN [Closures EXCEPT !.tx.completed = @ + 1] ELSE Closures
        st == ApplyCalls(m, calls, counted)
    IN  /\ behaviour.calls = running[j].calls
        /\ FitsBuffer(st)
        /\ running' = SelectAt(running, (1..Len(running)) \ {j})
        /\ tx' = st.tx
        /\ pendingMessages' = st.groups
        /\ immediates' = st.imm
        /\ last' = Effect("settle", [message |-> m, behaviour |-> behaviour,
                                     emitted |-> st.emitted], st.returnValue,
                          Only(calls, "ack"), Only(calls, "nack"), <<>>, <<>>)
        /\ UNCHANGED <<reqs, senderDestroyed, pendingFlush, routing, framestrategy>>

InitDispatch ==
    /\ reqs = <<>>
    /\ running = <<>>
    /\ senderDestroyed = FALSE
    /\ tx = NoTx

(***************************************************************************)
(* Specification of the channel registry and the correlation table         *)
(***************************************************************************)
InitChannel ==
    /\ channelMap = <<>>
    /\ remoteAckMap = <<>>
    /\ listeners = <<>>
    /\ live = Entities
    /\ envOf = [c \in CallIds |-> NoEnv]
    /\ onListeners = <<>>
    /\ unsubs = <<>>
    /\ remoteSubs = <<>>

Init ==
    /\ InitChannel
    /\ InitBuffer
    /\ InitDispatch
    /\ framestrategy = "default"
    /\ last = Effect("init", NoArg, Absent, <<>>, <<>>, <<>>, <<>>)

DoCreateChannel == \E identity \in Identities, channelName \in ChannelNames :
                      CreateChannel(identity, channelName)

DoClosed == \E event \in ClosedEvents : Closed(event)

DoLaunch == \E entity \in Entities : Launch(entity)

DoAddEventListener == \E targetIdentity \in TargetIdentities, type \in EventTypes,
                            listener \in ListenerFns :
                            /\ AddEventListener(targetIdentity, type, listener)
                            /\ UNCHANGED remoteSubs

DoUnsubscribe == \E k \in 1..Len(unsubs) : Unsubscribe(k) /\ UNCHANGED remoteSubs

DoSubscribe == \E targetIdentity \in TargetIdentities, type \in EventTypes,
                     listener \in ListenerFns, requested \in BOOLEAN :
                     Subscribe(targetIdentity, type, listener, requested)

DoResolveRemote == \E j \in 1..Len(remoteSubs) : ResolveRemote(j)

DoSubscriptionClosure == \E j \in 1..Len(remoteSubs) : SubscriptionClosure(j)

\* desktop-event subscriptions to channel events with their remote leg
NextRemote ==
    \/ DoSubscribe
    \/ DoResolveRemote
    \/ DoSubscriptionClosure

SpecRemote == Init /\ [][NextRemote]_vars

NextSubscriptions == DoAddEventListener \/ DoUnsubscribe

SpecSubscriptions == Init /\ [][NextSubscriptions]_vars

DoGetChannelByChannelName == \E channelName \in ChannelNames :
                                GetChannelByChannelName(channelName)

DoConnectToChannel == \E identity \in Requesters, payload \in ConnectPayloads,
                         messageId \in MessageIds :
                         ConnectToChannel(identity, payload, messageId)

DoSendChannelMessage == \E identity \in Requesters, target \in {ReporterIdentity},
                           messageId \in MessageIds :
                           SendChannelMessage(identity, target, messageId)

DoSendChannelResult == \E identity \in {ReporterIdentity}, payload \in ResultPayloads :
                          SendChannelResult(identity, payload)

\* the registry and the correlation table: providers register channels,
\* clients connect and send, providers report results
Next ==
    \/ DoCreateChannel
    \/ DoConnectToChannel
    \/ DoSendChannelMessage
    \/ DoSendChannelResult

Spec == Init /\ [][Next]_vars

\* requesters whose uuid and name hold the separator of the ackKey, and a
\* window named like the text an absent name is rendered as
KeyRequesters ==
    {[uuid |-> "app-1", name |-> S("win")],
     [uuid |-> "app", name |-> S("1-win")],
     [uuid |-> "app1", name |-> Undef],
     [uuid |-> "app1", name |-> S("undefined")]}

KeyResultPayloads ==
    [success : {TRUE}, reason : {Undef}, destinationToken : KeyRequesters,
     correlationId : MessageIds, payload : {S("ready")}]

DoKeyedSend == \E identity \in KeyRequesters, messageId \in MessageIds :
                  SendChannelMessage(identity, ReporterIdentity, messageId)

DoKeyedResult == \E payload \in KeyResultPayloads :
                    SendChannelResult(ReporterIdentity, payload)

\* the correlation table under requests of any requester
NextAckKeys ==
    \/ DoKeyedSend
    \/ DoKeyedResult

SpecAckKeys == Init /\ [][NextAckKeys]_vars

\* the correlation table over the life of the providers: channels are
\* registered and torn down while calls are pending
DoRegister == \E identity \in Identities : CreateChannel(identity, S("svc"))

\* the results a provider reports: a success with or without data, a
\* failure with no reason, an empty one or a reason
ReportPayloads ==
    [success : {TRUE}, reason : {Undef}, destinationToken : Requesters,
     correlationId : MessageIds, payload : {Undef, S("ready")}]
    \cup
    [success : {FALSE}, reason : {Undef, S(""), S("boom")}, destinationToken : Requesters,
     correlationId : MessageIds, payload : {Undef}]

DoReport == \E payload \in ReportPayloads : SendChannelResult(ReporterIdentity, payload)

NextCorrelation ==
    \/ DoRegister
    \/ DoClosed
    \/ DoSendChannelMessage
    \/ DoReport

SpecCorrelation == Init /\ [][NextCorrelation]_vars

\* the registry over the whole life of its owners: entities close, restart
\* and register again
NextRegistry ==
    \/ DoCreateChannel
    \/ DoClosed
    \/ DoLaunch
    \/ DoGetChannelByChannelName

SpecRegistry == Init /\ [][NextRegistry]_vars

\* the outbound buffering layer: payloads are sent, queued flushes run,
\* windows go away
InitBufferSpec ==
    /\ InitChannel
    /\ InitBuffer
    /\ InitDispatch
    /\ framestrategy \in FrameStrategies
    /\ last = Effect("init", NoArg, Absent, <<>>, <<>>, <<>>, <<>>)

DoSend == \E identity \in Dests, payloadObj \in PayloadObjs :
             Send(identity, payloadObj) /\ UNCHANGED <<chanVars, dispVars, subVars>>

DoFlush == Flush /\ UNCHANGED <<chanVars, dispVars, subVars>>

DoDestroyWindow == \E identity \in Dests :
                      DestroyWindow(identity) /\ UNCHANGED <<chanVars, dispVars, subVars>>

DoRemoveRouting == \E identity \in Dests :
                      RemoveRouting(identity) /\ UNCHANGED <<chanVars, dispVars, subVars>>

NextBuffer ==
    \/ DoSend
    \/ DoFlush
    \/ DoDestroyWindow
    \/ DoRemoveRouting

SpecBuffer == InitBufferSpec /\ [][NextBuffer]_vars

\* the dispatch pipeline: messages arrive from the sender frame, handlers
\* are called and end, queued flushes run, the sender and its owner window
\* go away
DoOnMessage == \E data \in PlainMessages :
                  /\ OnMessage(data)
                  /\ Len(reqs') + Len(running') <= MaxInFlight
                  /\ UNCHANGED <<chanVars, subVars>>

\* the messages of a frame that is valid for frame connect: an
\* unregistered action, or a registered one, sync or not
DoOnValidFrameMessage == \E data \in {plain \in PlainMessages : plain.valid} :
                            /\ OnMessage(data)
                            /\ Len(reqs') + Len(running') <= MaxInFlight
                            /\ UNCHANGED <<chanVars, subVars>>

DoOnTransaction == \E shapes \in Transactions :
                      OnTransaction(FALSE, shapes) /\ UNCHANGED <<chanVars, subVars>>

\* an 'api-transaction' that is itself marked isSync
DoOnSyncTransaction == \E shapes \in Transactions :
                          OnTransaction(TRUE, shapes) /\ UNCHANGED <<chanVars, subVars>>

DoInvoke == \E i \in 1..Len(reqs) :
               \E behaviour \in (IF reqs[i].inTx THEN SubBehaviours ELSE Behaviours) :
                   Invoke(i, behaviour.calls) /\ UNCHANGED <<chanVars, subVars>>

DoSettle == \E j \in 1..Len(running) :
               \E behaviour \in (IF running[j].message.inTx
                                  THEN SubBehaviours ELSE Behaviours) :
                   Settle(j, behaviour) /\ UNCHANGED <<chanVars, subVars>>

\* the web contents of the sender is destroyed
DoSenderDestroyed ==
    /\ ~senderDestroyed
    /\ senderDestroyed' = TRUE
    /\ last' = Effect("senderDestroyed", NoArg, Absent, <<>>, <<>>, <<>>, <<>>)
    /\ UNCHANGED <<reqs, running, tx>>
    /\ UNCHANGED <<chanVars, bufVars, subVars>>

\* the owner window of the sender is destroyed
DoOwnerDestroyed == DestroyWindow(Sender) /\ UNCHANGED <<chanVars, dispVars, subVars>>

NextDispatch ==
    \/ DoOnValidFrameMessage
    \/ DoInvoke
    \/ DoSettle
    \/ DoFlush
    \/ DoSenderDestroyed
    \/ DoOwnerDestroyed

SpecDispatch == Init /\ [][NextDispatch]_vars

\* the frame-origin gate: messages arrive from valid and from superseded
\* frames under both frame strategies
NextGate ==
    \/ DoOnMessage
    \/ DoInvoke
    \/ DoSettle
    \/ DoFlush

SpecGate == InitBufferSpec /\ [][NextGate]_vars

\* requests in flight together: the sender numbers its messages, a new
\* one carries the smallest messageId no request in flight carries; a
\* request with isSync keeps its frame waiting for e.returnValue, so no
\* other request arrives while it is in flight
MessageIdPool == PlainMessageId..(PlainMessageId + MaxRequests - 1)

FreshMessageId ==
    LET inFlight == {reqs[i].messageId : i \in 1..Len(reqs)}
                        \cup {running[j].message.messageId : j \in 1..Len(running)}
    IN  CHOOSE id \in MessageIdPool \ inFlight :
            \A other \in MessageIdPool \ inFlight : id <= other

DoOnRequest == \E isSync \in BOOLEAN :
                  /\ Len(reqs) + Len(running) < MaxRequests
                  /\ \A i \in 1..Len(reqs) : ~reqs[i].isSync
                  /\ \A j \in 1..Len(running) : ~running[j].message.isSync
                  /\ OnMessage(Message(FreshMessageId, "known-action", isSync,
                                       "undefined", TRUE))
                  /\ UNCHANGED <<chanVars, subVars>>

NextInFlight ==
    \/ DoOnRequest
    \/ DoInvoke
    \/ DoSettle
    \/ DoFlush

SpecInFlight == Init /\ [][NextInFlight]_vars

\* the transactions: one is served at a time
NextTransaction ==
    \/ DoOnTransaction
    \/ DoInvoke
    \/ DoSettle
    \/ DoFlush
    \/ DoSenderDestroyed

SpecTransaction == InitBufferSpec /\ [][NextTransaction]_vars

\* the transactions sent with isSync: the same pipeline serves them
NextSyncTransaction ==
    \/ DoOnSyncTransaction
    \/ DoInvoke
    \/ DoSettle
    \/ DoFlush
    \/ DoSenderDestroyed

SpecSyncTransaction == InitBufferSpec /\ [][NextSyncTransaction]_vars

(***************************************************************************)
(* Properties of the channel registry                                      *)
(***************************************************************************)
IsCreate(e) == e.op = "createChannel"

\* the number of events of a type that carry a channelId
CountEvents(events, type, channelId) ==
    Cardinality({i \in 1..Len(events) :
                    events[i].type = type /\ events[i].payload.channelId = channelId})

\* C1: the registry holds at most one ProviderIdentity per channelId; a
\* createChannel issued while its channelId is registered fails with the
\* registration error, so a createChannel succeeds only for a channelId
\* that is not registered (at most one success between two teardowns).
C1_OnePerChannelId ==
    /\ [](\A i, j \in 1..Len(channelMap) :
            channelMap[i].channelId = channelMap[j].channelId => i = j)
    /\ [][IsCreate(last') =>
            /\ MapHas(channelMap, last'.arg.channelId)
                  => /\ last'.ret.threw = S(RegisterFailed)
                     /\ MapGet(channelMap', last'.arg.channelId)
                            = MapGet(channelMap, last'.arg.channelId)
            /\ last'.ret.threw = Undef
                  => /\ ~MapHas(channelMap, last'.arg.channelId)
                     /\ MapHas(channelMap', last'.arg.channelId)]_vars

\* C1 witness: a createChannel of a resolved owner was rejected because its
\* channelId is registered
C1_Witness ==
    /\ IsCreate(last)
    /\ last.ret.threw = S(RegisterFailed)
    /\ getExternalOrOfWindowIdentity(last.arg.identity) # Absent
    /\ MapHas(channelMap, last.arg.channelId)

\* C2 (as claimed): when the owning entity's closed notification fires,
\* every channel registered for that owner is removed from the registry,
\* exactly one channel-disconnected event is emitted for it, and
\* getChannelByChannelId then returns absent.
C2_OneDisconnectPerClosure ==
    [][(last'.op = "closed" /\ last'.arg.event.topic # "application") =>
          \A i \in 1..Len(channelMap) :
              closedEvent(channelMap[i]) = last'.arg.event =>
                  /\ MapGet(channelMap', channelMap[i].channelId) = Absent
                  /\ CountEvents(last'.events, "channel-disconnected",
                                 channelMap[i].channelId) = 1]_vars

\* C10: a createChannel that fails (owner unresolved or channelId
\* registered) throws and changes nothing: registry and watches are as
\* before and no event is emitted; a successful one emits exactly one
\* channel-connected event carrying the stored ProviderIdentity.
C10_FailureHasNoSideEffect ==
    [][IsCreate(last') =>
          IF \/ getExternalOrOfWindowIdentity(last'.arg.identity) = Absent
             \/ MapHas(channelMap, last'.arg.channelId)
          THEN /\ last'.ret.threw = S(RegisterFailed)
               /\ channelMap' = channelMap
               /\ listeners' = listeners
               /\ last'.events = <<>>
          ELSE /\ last'.ret.threw = Undef
               /\ last'.events = <<[type |-> "channel-connected",
                                    payload |-> MapGet(channelMap', last'.arg.channelId)]>>
               /\ last'.ret.value = MapGet(channelMap', last'.arg.channelId)]_vars

\* C10 witness: a createChannel failed on a registered channelId while
\* watches of the earlier registration are armed
C10_Witness ==
    /\ IsCreate(last)
    /\ last.ret.threw = S(RegisterFailed)
    /\ MapHas(channelMap, last.arg.channelId)
    /\ Len(listeners) >= 2
    /\ last.events = <<>>

IsLookup == last.op = "getChannelByChannelName"

\* C12 (as claimed): getChannelByChannelName returns absent when no
\* registered channel has the channelName, and otherwise the match
\* registered earliest among those still registered.
C12_FirstMatchByName ==
    IsLookup =>
        LET hits == {i \in 1..Len(channelMap) :
                        channelMap[i].channelName = last.arg.channelName}
        IN  /\ hits = {} => last.ret = Absent
            /\ hits # {} => \E i \in hits : /\ last.ret = channelMap[i]
                                            /\ \A j \in hits : i <= j

\* C12 (amended): otherwise it returns the match registered latest among
\* those still registered.
C12_LastMatchByName ==
    IsLookup =>
        LET hits == {i \in 1..Len(channelMap) :
                        channelMap[i].channelName = last.arg.channelName}
        IN  /\ hits = {} => last.ret = Absent
            /\ hits # {} => \E i \in hits : /\ last.ret = channelMap[i]
                                            /\ \A j \in hits : j <= i

\* two registered providers share the channelName looked up, and the one
\* registered second is returned
C12_Witness ==
    /\ IsLookup
    /\ Len(channelMap) = 2
    /\ channelMap[1].channelName = last.arg.channelName
    /\ channelMap[2].channelName = last.arg.channelName
    /\ last.ret = channelMap[2]

\* C13 (as claimed): the unsubscribe closure returned by addEventListener
\* is idempotent: invoking it again leaves the listener set as the first
\* invocation left it, and so removes no registration made by another
\* addEventListener call, even one that passed the same listener function.
C13_UnsubscribeIdempotent ==
    [][last'.op = "unsubscribe" /\ last'.arg.again => onListeners' = onListeners]_vars

(***************************************************************************)
(* Properties of connectToChannel and the correlation table                *)
(***************************************************************************)
IsConnect(e) == e.op = "connectToChannel"

IsResult(e) == e.op = "sendChannelResult"

\* the registered providers that carry a channelName
ProvidersNamed(channelName) ==
    {i \in 1..Len(channelMap) : channelMap[i].channelName = channelName}

\* the registered providers an identity (uuid, optional name) matches
ProvidersOf(uuid, name) ==
    {i \in 1..Len(channelMap) :
        /\ channelMap[i].uuid = uuid[1]
        /\ (name = Undef \/ name = S("") \/ channelMap[i].name = name)}

\* a connectToChannel step forwarded one connection request to provider p,
\* registered the caller's callbacks under the key of (messageId, requester)
\* and invoked no callback
ForwardedOnceTo(p, e, before, after) ==
    LET key == ToString(e.arg.messageId) \o "-" \o e.arg.identity.uuid \o "-"
                   \o (IF e.arg.identity.name = Undef THEN "undefined"
                       ELSE e.arg.identity.name[1])
    IN  /\ Len(e.sent) = 1
        /\ e.sent[1].action = "process-channel-connection"
        /\ e.sent[1].to = [uuid |-> p.uuid, name |-> p.name]
        /\ e.sent[1].providerIdentity = p
        /\ e.acks = <<>> /\ e.nacks = <<>>
        /\ DOMAIN after = (DOMAIN before) \cup {key}
        /\ after[key] = e.arg.cb
        /\ \A k \in (DOMAIN before) \ {key} : after[k] = before[k]

\* C3 (as claimed): a connectToChannel whose channelName matches exactly
\* one registered provider forwards exactly one process-channel-connection
\* message to that provider, registers exactly one correlation entry keyed
\* by (messageId, requesterIdentity) and invokes neither ack nor nack.
C3_ForwardOnNameMatch ==
    [][(/\ IsConnect(last')
        /\ last'.arg.payload.channelName # Undef
        /\ Cardinality(ProvidersNamed(last'.arg.payload.channelName)) = 1)
       => ForwardedOnceTo(
              channelMap[CHOOSE i \in ProvidersNamed(last'.arg.payload.channelName) : TRUE],
              last', remoteAckMap, remoteAckMap')]_vars

\* C3 (amended): the same for a non-empty channelName; an empty channelName
\* counts as not given.
C3_ForwardOnNonEmptyNameMatch ==
    [][(/\ IsConnect(last')
        /\ Truthy(last'.arg.payload.channelName)
        /\ Cardinality(ProvidersNamed(last'.arg.payload.channelName)) = 1)
       => ForwardedOnceTo(
              channelMap[CHOOSE i \in ProvidersNamed(last'.arg.payload.channelName) : TRUE],
              last', remoteAckMap, remoteAckMap')]_vars

\* C3 witness: a request naming a channel that exactly one of two
\* registered providers carries was forwarded
C3_Witness ==
    /\ IsConnect(last)
    /\ Truthy(last.arg.payload.channelName)
    /\ Cardinality(ProvidersNamed(last.arg.payload.channelName)) = 1
    /\ Len(channelMap) = 2
    /\ Len(last.sent) = 1
    /\ \E k \in DOMAIN remoteAckMap : remoteAckMap[k] = last.arg.cb

\* the connectToChannel request is resolved by identity: no channelName is
\* given or none matches, and a uuid is given
ByIdentity(payload) ==
    /\ payload.uuid # Undef /\ payload.uuid # S("")
    /\ \/ payload.channelName = Undef
       \/ payload.channelName = S("")
       \/ ProvidersNamed(payload.channelName) = {}

DisambiguationMessage(payload) ==
    "More than one channel found for provider with identity: "
        \o (IF payload.name = Undef \/ payload.name = S("")
            THEN payload.uuid[1]
            ELSE payload.uuid[1] \o "/" \o payload.name[1])
        \o ", please include a channelName"

\* C4: a connectToChannel resolved by identity whose identity matches two
\* or more registered providers forwards nothing, registers no correlation
\* entry and invokes nack with the disambiguation message.
C4_AmbiguousIdentityNacks ==
    [][(/\ IsConnect(last')
        /\ ByIdentity(last'.arg.payload)
        /\ Cardinality(ProvidersOf(last'.arg.payload.uuid, last'.arg.payload.name)) >= 2)
       => /\ last'.sent = <<>>
          /\ remoteAckMap' = remoteAckMap
          /\ last'.acks = <<>>
          /\ \E i \in 1..Len(last'.nacks) :
                last'.nacks[i] = [cb |-> last'.arg.cb,
                                  message |-> DisambiguationMessage(last'.arg.payload)]]_vars

\* C4 witness: an identity-only request named an owner (uuid and name) with
\* two registered channels and was refused with the disambiguation message
C4_Witness ==
    /\ IsConnect(last)
    /\ ByIdentity(last.arg.payload)
    /\ last.arg.payload.name # Undef
    /\ Cardinality(ProvidersOf(last.arg.payload.uuid, last.arg.payload.name)) >= 2
    /\ last.sent = <<>>
    /\ last.nacks # <<>>
    /\ last.nacks[1].message = DisambiguationMessage(last.arg.payload)

\* the resolution of a connectToChannel request yields no provider: no
\* channelName is given or none matches, and no uuid is given or the
\* identity matches no registered provider
ZeroProviders(payload) ==
    /\ ~Truthy(payload.channelName) \/ ProvidersNamed(payload.channelName) = {}
    /\ ~Truthy(payload.uuid) \/ ProvidersOf(payload.uuid, payload.name) = {}

\* C11 (as claimed): a connectToChannel whose resolution yields zero
\* providers invokes nack with the sentinel 'internal-nack', forwards
\* nothing and registers no correlation entry, and the sentinel is
\* delivered in no other case.
C11_SentinelOnlyForZeroProviders ==
    [][IsConnect(last') =>
          /\ ZeroProviders(last'.arg.payload) =>
                /\ last'.nacks = <<[cb |-> last'.arg.cb, message |-> "internal-nack"]>>
                /\ last'.acks = <<>>
                /\ last'.sent = <<>>
                /\ remoteAckMap' = remoteAckMap
          /\ (\E i \in 1..Len(last'.nacks) : last'.nacks[i].message = "internal-nack")
                => ZeroProviders(last'.arg.payload)]_vars

\* the request gives a channelName that a registered channel carries
NameMatches(payload) ==
    Truthy(payload.channelName) /\ ProvidersNamed(payload.channelName) # {}

\* C18 (as claimed): a connectToChannel that gives a channelName is
\* resolved by name only: one whose channelName matches no registered
\* channel forwards nothing, and a forward goes to a provider registered
\* under the requested channelName.
C18_NameOnlyWhenGiven ==
    [][IsConnect(last') /\ Truthy(last'.arg.payload.channelName) =>
          /\ ProvidersNamed(last'.arg.payload.channelName) = {} => last'.sent = <<>>
          /\ last'.sent # <<>> =>
                last'.sent[1].providerIdentity.channelName
                    = last'.arg.payload.channelName]_vars

\* C18 (amended): a request whose non-empty channelName matches a
\* registered channel is forwarded to the provider registered latest under
\* that channelName, whatever identity it gives; a request whose
\* channelName is absent, empty or matches no registered channel is
\* resolved by identity, and is forwarded exactly when it gives a uuid that
\* (with the name, if given) matches one registered provider, to that
\* provider, whatever channelName the provider registered under.
C18_NameThenIdentity ==
    [][IsConnect(last') =>
          LET payload == last'.arg.payload
              named == ProvidersNamed(payload.channelName)
              owned == IF Truthy(payload.uuid)
                       THEN ProvidersOf(payload.uuid, payload.name) ELSE {}
          IN  IF NameMatches(payload)
              THEN /\ Len(last'.sent) = 1
                   /\ last'.sent[1].providerIdentity
                          = channelMap[CHOOSE i \in named : \A j \in named : j <= i]
                   /\ last'.nacks = <<>>
              ELSE IF Cardinality(owned) = 1
              THEN /\ Len(last'.sent) = 1
                   /\ last'.sent[1].providerIdentity
                          = channelMap[CHOOSE i \in owned : TRUE]
                   /\ last'.nacks = <<>>
              ELSE last'.sent = <<>>]_vars

\* a request naming a channel nobody registered, with the uuid of the
\* owner of one channel registered under another channelName, was
\* forwarded to that provider
C18_Witness ==
    /\ IsConnect(last)
    /\ Truthy(last.arg.payload.channelName)
    /\ ProvidersNamed(last.arg.payload.channelName) = {}
    /\ Len(last.sent) = 1
    /\ last.sent[1].providerIdentity.channelName # last.arg.payload.channelName
    /\ \E k \in DOMAIN remoteAckMap : remoteAckMap[k] = last.arg.cb

\* the step forwarded a message: a connectToChannel that resolved a
\* provider, or a sendChannelMessage
IsForward(e) ==
    /\ e.op \in {"connectToChannel", "sendChannelMessage"}
    /\ e.sent # <<>>

\* the ackKey of (messageId, identity), character by character
KeyOf(messageId, identity) ==
    ToString(messageId) \o "-" \o identity.uuid \o "-"
        \o (IF identity.name = Undef THEN "undefined" ELSE identity.name[1])

\* C20: the correlation table holds one entry per ackKey and the last
\* write wins: every forward sends its message and leaves under its key
\* the callbacks of this call alone, the entries of the other keys as they
\* were, and the callbacks of a call that was pending under the same key
\* nowhere in the table; a sendChannelResult for a key of the table
\* invokes one callback, of the call registered last under the key, and
\* removes the entry.
C20_LastWriteWins ==
    [][/\ IsForward(last') =>
            LET key == KeyOf(last'.arg.messageId, last'.arg.identity)
            IN  /\ Len(last'.sent) = 1
                /\ last'.sent[1].ackToSender.payload.correlationId = last'.arg.messageId
                /\ last'.sent[1].ackToSender.payload.destinationToken = last'.arg.identity
                /\ last'.acks = <<>> /\ last'.nacks = <<>>
                /\ DOMAIN remoteAckMap' = (DOMAIN remoteAckMap) \cup {key}
                /\ remoteAckMap'[key] = last'.arg.cb
                /\ \A k \in (DOMAIN remoteAckMap) \ {key} : remoteAckMap'[k] = remoteAckMap[k]
                /\ key \in DOMAIN remoteAckMap =>
                      /\ remoteAckMap[key] # last'.arg.cb
                      /\ \A k \in DOMAIN remoteAckMap' : remoteAckMap'[k] # remoteAckMap[key]
       /\ IsResult(last') =>
            LET p == last'.arg.payload
                key == KeyOf(p.correlationId, p.destinationToken)
            IN  key \in DOMAIN remoteAckMap =>
                  /\ Len(last'.acks) + Len(last'.nacks) = 1
                  /\ \A i \in 1..Len(last'.acks) : last'.acks[i].cb = remoteAckMap[key]
                  /\ \A i \in 1..Len(last'.nacks) : last'.nacks[i].cb = remoteAckMap[key]
                  /\ DOMAIN remoteAckMap' = (DOMAIN remoteAckMap) \ {key}
                  /\ \A k \in DOMAIN remoteAckMap' : remoteAckMap'[k] = remoteAckMap[k]]_vars

\* a second forward was made under the key of a pending call: the call
\* tokens are handed out smallest first, so the one entry of the table
\* holding the second token is the overwritten entry of the first call
C20_Witness ==
    /\ IsForward(last)
    /\ last.arg.cb = 2
    /\ DOMAIN remoteAckMap = {KeyOf(last.arg.messageId, last.arg.identity)}
    /\ remoteAckMap[KeyOf(last.arg.messageId, last.arg.identity)] = 2
    /\ Len(last.sent) = 1

\* C19 (as claimed): two requests that differ in messageId or in requester
\* identity (uuid, name) have different ackKeys, so a forward never
\* overwrites the correlation entry of a pending call made with another
\* messageId or by another requester.
C19_AckKeyUnique ==
    [][IsForward(last') =>
          \A c \in CallIds :
              (/\ envOf[c] # NoEnv
               /\ \/ envOf[c].correlationId # last'.arg.messageId
                  \/ envOf[c].destinationToken # Wire(last'.arg.identity))
              => \A k \in DOMAIN remoteAckMap :
                    remoteAckMap[k] = c =>
                        /\ k # getAckKey(last'.arg.messageId, last'.arg.identity)
                        /\ remoteAckMap'[k] = c]_vars

\* C5 (as claimed): a sendChannelResult with success true and a key present
\* in the table invokes that entry's ack with {success:true, data: payload}
\* exactly once and removes the entry; one whose key is not in the table
\* invokes the reporter's own nack with the 'initial channel message not
\* found' error, invokes no callback of a table entry and leaves the table
\* unchanged.
C5_ResultResolvesOnce ==
    [][IsResult(last') =>
          LET p == last'.arg.payload
              key == ToString(p.correlationId) \o "-" \o p.destinationToken.uuid \o "-"
                         \o (IF p.destinationToken.name = Undef THEN "undefined"
                             ELSE p.destinationToken.name[1])
          IN  IF key \in DOMAIN remoteAckMap
              THEN p.success =>
                      /\ last'.acks = <<[cb |-> remoteAckMap[key],
                                         payload |-> [success |-> TRUE, data |-> p.payload]]>>
                      /\ last'.nacks = <<>>
                      /\ DOMAIN remoteAckMap' = (DOMAIN remoteAckMap) \ {key}
              ELSE /\ last'.acks = <<>>
                   /\ last'.nacks = <<[cb |-> Reporter,
                                       message |-> "Ack failed, initial channel message not found."]>>
                   /\ remoteAckMap' = remoteAckMap]_vars

\* C6 (as claimed): a sendChannelResult carrying the correlationId and the
\* destinationToken of the ackToSender envelope forwarded with a pending
\* call, with success true and payload P, resolves that call's ack with
\* {success:true, data: P}.
C6_EnvelopeRoundTrip ==
    [][IsResult(last') =>
          \A c \in CallIds :
              (/\ envOf[c] # NoEnv
               /\ last'.arg.payload.success
               /\ last'.arg.payload.correlationId = envOf[c].correlationId
               /\ last'.arg.payload.destinationToken = envOf[c].destinationToken)
              => last'.acks = <<[cb |-> c,
                                 payload |-> [success |-> TRUE,
                                              data |-> last'.arg.payload.payload]]>>]_vars

(***************************************************************************)
(* Properties of the outbound buffering layer                              *)
(***************************************************************************)
\* the groups that hold payloads for a destination that can be reached
Deliverable(groups) ==
    {i \in 1..Len(groups) :
        /\ groups[i].messages # <<>>
        /\ routing[groups[i].identity] # Absent
        /\ ~routing[groups[i].identity].browserWindow.destroyed}

\* C7 (as claimed): the payloads enqueued for one destination key before a
\* flush result in exactly one send for that destination, a
\* 'process-api-batch' message holding all of them in enqueue order, and
\* payloads for two destination keys in two sends: a flush performs one
\* send per destination that has payloads queued, and no other send.
C7_OneSendPerDestination ==
    [][last'.op = "flush" =>
          /\ Len(last'.sent) = Cardinality(Deliverable(pendingMessages))
          /\ \A i \in Deliverable(pendingMessages) :
                \E j \in 1..Len(last'.sent) :
                    /\ last'.sent[j].window
                           = routing[pendingMessages[i].identity].browserWindow.id
                    /\ last'.sent[j].frame
                           = routing[pendingMessages[i].identity].frameRoutingId
                    /\ last'.sent[j].payload
                           = <<"json", [action |-> "process-api-batch",
                                        payload |-> [messages |-> pendingMessages[i].messages]]>>]_vars

\* the groups whose destination can be reached
Reachable(groups) ==
    {i \in 1..Len(groups) :
        /\ routing[groups[i].identity] # Absent
        /\ ~routing[groups[i].identity].browserWindow.destroyed}

BatchOf(messages) ==
    <<"json", [action |-> "process-api-batch", payload |-> [messages |-> messages]]>>

\* C14: a flush leaves every group's message list empty; each batch it
\* sends holds the payloads queued in one group whose destination can be
\* reached, one batch per such group, and the payloads of a group whose
\* destination is unreachable or has no routing info are in no batch and
\* are gone after the flush, so no later flush can deliver them.
C14_FlushDeliversOnceOrDrops ==
    [][last'.op = "flush" =>
          /\ Len(pendingMessages') = Len(pendingMessages)
          /\ \A i \in 1..Len(pendingMessages') :
                /\ pendingMessages'[i].messages = <<>>
                /\ pendingMessages'[i].key = pendingMessages[i].key
          /\ Len(last'.sent) = Cardinality(Reachable(pendingMessages))
          /\ \A j \in 1..Len(last'.sent) :
                \E i \in Reachable(pendingMessages) :
                    /\ last'.sent[j].payload = BatchOf(pendingMessages[i].messages)
                    /\ last'.sent[j].window
                           = routing[pendingMessages[i].identity].browserWindow.id
                    /\ last'.sent[j].frame = pendingMessages[i].frameRoutingId]_vars

\* a flush ran while a group held payloads for a destroyed window: nothing
\* was sent for it and its list is empty
C14_Witness ==
    /\ last.op = "flush"
    /\ \E i \in 1..Len(pendingMessages) :
          /\ last.arg.groups[i].messages # <<>>
          /\ i \notin Reachable(pendingMessages)
          /\ pendingMessages[i].messages = <<>>
    /\ last.sent = <<>>

(***************************************************************************)
(* Properties of the request dispatch pipeline                             *)
(***************************************************************************)
\* C8 (as claimed): for an 'api-transaction' declaring N sub-messages,
\* exactly one aggregate acknowledgement is emitted once all N handlers
\* have completed, whatever the completion order, and its data holds
\* exactly N ack objects; none is emitted before all N have completed.
C8_OneAggregateAck ==
    tx.total >= 0 =>
        /\ tx.completed = tx.total =>
              /\ tx.emitted = 1
              /\ Len(tx.aggregates) = 1
              /\ Len(tx.aggregates[1]) = tx.total
        /\ tx.completed < tx.total => tx.emitted = 0

\* the key ackDecorator queues under, as the owner window of the sender is
SenderKey == bufferKey(routing[Sender].browserWindow, routing[Sender].frameRoutingId)

\* the ack objects queued for the sender under that key
QueuedForSender(groups) ==
    IF HasGroup(groups, SenderKey)
    THEN groups[CHOOSE i \in 1..Len(groups) : groups[i].key = SenderKey].messages
    ELSE <<>>

\* the handler of a non-transactional request has ended
IsSettle == last.op = "settle" /\ ~last.arg.message.inTx

\* a step of a non-transactional request in which ack or nack can be called
IsAckStep == last.op \in {"invoke", "settle"} /\ ~last.arg.message.inTx

\* the acknowledgements a request has had when its handler has ended: the
\* calls the handler made itself and the one the pipeline makes
Acknowledgements ==
    Len(HandlerCalls(last.arg.behaviour)) + Len(last.acks) + Len(last.nacks)

\* C9 (as claimed): every non-transactional message of a registered action
\* whose handler is invoked gets exactly one acknowledgement, one ack or
\* one nack, whichever convention the handler uses: calling ack or nack,
\* returning a value, throwing, or a combination.
C9_ExactlyOneAck ==
    IsSettle => Acknowledgements = 1

\* C9 (amended): a handler that uses one convention, calling ack or nack
\* once and returning undefined, or calling neither and returning a value
\* or throwing, has had exactly one acknowledgement when it has ended; an
\* ack made while the sender lives, by the handler or by the pipeline,
\* gives one ack object, which is what the sync call returns, or the last
\* object queued for the sender.
C9_ExactlyOneAckPerConvention ==
    /\ IsSettle /\ OneConvention(last.arg.behaviour) => Acknowledgements = 1
    /\ IsAckStep /\ Len(last.acks) = 1 /\ ~senderIsDestroyed =>
          /\ last.arg.emitted = 1
          /\ IF last.arg.message.isSync
             THEN /\ last.ret # Undef
                  /\ last.ret[1][2].correlationId = last.arg.message.messageId
                  /\ last.ret[1][2].payload = last.acks[1].payload
             ELSE /\ QueuedForSender(pendingMessages) # <<>>
                  /\ QueuedForSender(pendingMessages)
                         [Len(QueuedForSender(pendingMessages))][2]
                         = [correlationId |-> last.arg.message.messageId,
                            payload |-> last.acks[1].payload]

\* a handler that called neither ack nor nack has returned a value: it has
\* been acked once, by the pipeline, with the value wrapped in an
\* AckPayload, and the ack object is queued for the sender
C9_Witness ==
    /\ IsSettle
    /\ ~last.arg.message.isSync
    /\ last.arg.behaviour = [calls |-> "none", outcome |-> "value"]
    /\ Acknowledgements = 1
    /\ last.acks = <<[fn |-> "ack", payload |-> AckPayload("value")]>>
    /\ last.nacks = <<>>
    /\ last.arg.emitted = 1
    /\ Pending(pendingMessages) = 1

IsOnMessage(e) == e.op = "onMessage"

\* C15: an inbound message whose action is not in the action map is
\* dropped: no handler invocation is queued, no ack object is returned or
\* queued for the sender, no nack is made, and the deferred
\* acknowledgement, the channel registry and the correlation table are
\* left as they were.
C15_UnregisteredActionDropped ==
    [][IsOnMessage(last') /\ last'.arg.message.action = "unknown-action" =>
          /\ reqs' = reqs
          /\ running' = running
          /\ tx' = tx
          /\ pendingMessages' = pendingMessages
          /\ immediates' = immediates
          /\ last'.acks = <<>>
          /\ last'.nacks = <<>>
          /\ last'.ret = Undef
          /\ last'.arg.emitted = 0
          /\ chanVars' = chanVars]_vars

\* a message of an unregistered action has arrived while a handler
\* invocation was queued, and the invocation is still queued
C15_Witness ==
    /\ IsOnMessage(last)
    /\ last.arg.message.action = "unknown-action"
    /\ Len(reqs) >= 1
    /\ last.nacks = <<>>
    /\ last.arg.emitted = 0

\* the ack objects a step has queued for the sender
NewlyQueued(before, after) ==
    SubSeq(QueuedForSender(after), Len(QueuedForSender(before)) + 1,
           Len(QueuedForSender(after)))

\* C16: when the handler of a request ends with a value other than
\* undefined the pipeline makes one success ack wrapping the value, when
\* it throws the pipeline makes one nack carrying the error, and when it
\* ends with undefined the pipeline makes neither; the ack object of a
\* returned value reaches the requester under the messageId of the
\* request; every other request in flight, queued or called, stays as it
\* was, every ack object the step produces carries the messageId of the
\* request that ended, and nothing already queued for the sender is touched.
C16_OutcomeMapping ==
    [][last'.op = "settle" =>
          LET m == last'.arg.message
              behaviour == last'.arg.behaviour
              fresh == NewlyQueued(pendingMessages, pendingMessages')
          IN  /\ behaviour.outcome = "value" =>
                    /\ last'.acks = <<[fn |-> "ack", payload |-> AckPayload("value")]>>
                    /\ last'.nacks = <<>>
                    /\ IF m.isSync
                       THEN last'.ret = S(Json([correlationId |-> m.messageId,
                                                payload |-> AckPayload("value")]))
                       ELSE /\ fresh # <<>>
                            /\ fresh[Len(fresh)] =
                                   Json([correlationId |-> m.messageId,
                                         payload |-> AckPayload("value")])
              /\ behaviour.outcome = "throw" =>
                    /\ last'.nacks = <<[fn |-> "nack", payload |-> "error"]>>
                    /\ last'.acks = <<>>
              /\ behaviour.outcome = "undefined" =>
                    /\ last'.acks = <<>>
                    /\ last'.nacks = <<>>
              /\ \E j \in 1..Len(running) :
                    /\ running[j] = [message |-> m, calls |-> behaviour.calls]
                    /\ running' = SelectAt(running, (1..Len(running)) \ {j})
              /\ reqs' = reqs
              /\ Len(QueuedForSender(pendingMessages'))
                     >= Len(QueuedForSender(pendingMessages))
              /\ SubSeq(QueuedForSender(pendingMessages'), 1,
                        Len(QueuedForSender(pendingMessages)))
                     = QueuedForSender(pendingMessages)
              /\ Len(fresh) = IF m.isSync THEN 0 ELSE last'.arg.emitted
              /\ \A k \in 1..Len(fresh) : fresh[k][2].correlationId = m.messageId
              /\ last'.ret # Undef => last'.ret[1][2].correlationId = m.messageId
              /\ tx' = tx
              /\ chanVars' = chanVars]_vars

\* the handler of one request has thrown while the handler of another
\* request was called and had not ended: the nack carries the error, its
\* ack object is queued under the messageId of the request that ended, and
\* the other handler is still awaited
C16_Witness ==
    /\ last.op = "settle"
    /\ last.arg.behaviour = [calls |-> "none", outcome |-> "throw"]
    /\ last.nacks = <<[fn |-> "nack", payload |-> "error"]>>
    /\ Len(running) >= 1
    /\ \A j \in 1..Len(running) :
          running[j].message.messageId # last.arg.message.messageId
    /\ QueuedForSender(pendingMessages) # <<>>
    /\ QueuedForSender(pendingMessages)
           [Len(QueuedForSender(pendingMessages))][2].correlationId
           = last.arg.message.messageId

\* the gate is asked about a message of a registered action from a frame
\* that is not valid for frame connect, under a strategy other than 'frames'
GateRejects(e) ==
    /\ IsOnMessage(e)
    /\ e.arg.message.action = "known-action"
    /\ ~e.arg.message.valid
    /\ framestrategy # "frames"

\* C17 (as claimed): when the frame strategy is not 'frames' and the sender
\* frame is not valid for frame connect, a message of a registered action
\* is rejected whatever its singleFrameOnly: its handler is not invoked and
\* exactly one nack with the superseded message is made.
C17_GateRejectsInvalidFrame ==
    [][GateRejects(last') =>
          /\ reqs' = reqs
          /\ running' = running
          /\ last'.nacks = <<SupersededMessage>>]_vars

(***************************************************************************)
(* Properties of the correlation table over the life of the providers      *)
(***************************************************************************)
\* C21: a correlation entry leaves the table, and its callbacks are
\* invoked, only in a sendChannelResult with its key: in every other step,
\* the teardown of a channel, a createChannel, a sendChannelResult for
\* another key, the key stays in the table and none of its callbacks is
\* invoked, and the callbacks it holds stay the same unless a forward under
\* the same key replaces them.
C21_EntryLeavesOnlyByItsResult ==
    [][\A k \in DOMAIN remoteAckMap :
          LET resolved == /\ IsResult(last')
                          /\ KeyOf(last'.arg.payload.correlationId,
                                   last'.arg.payload.destinationToken) = k
              rewritten == /\ IsForward(last')
                           /\ KeyOf(last'.arg.messageId, last'.arg.identity) = k
          IN  ~resolved =>
                /\ k \in DOMAIN remoteAckMap'
                /\ ~rewritten => remoteAckMap'[k] = remoteAckMap[k]
                /\ \A i \in 1..Len(last'.acks) : last'.acks[i].cb # remoteAckMap[k]
                /\ \A i \in 1..Len(last'.nacks) : last'.nacks[i].cb # remoteAckMap[k]]_vars

\* the channel of the provider the pending calls were sent to has been
\* torn down on its owner's closed notification, and the calls are still
\* pending
C21_Witness ==
    /\ last.op = "closed"
    /\ last.events # <<>>
    /\ last.events[1].type = "channel-disconnected"
    /\ last.events[1].payload.uuid = ReporterIdentity.uuid
    /\ channelMap = <<>>
    /\ Cardinality(DOMAIN remoteAckMap) = MaxCalls

(***************************************************************************)
(* Properties of the deferred acknowledgement of a transaction             *)
(***************************************************************************)
\* C22: the ack objects of the aggregate are in the order in which the acks
\* of the sub-messages were invoked: every step of a handler, its own
\* calls or the end the pipeline acknowledges, appends one ack object per
\* ack it invoked, under the messageId of its sub-message, behind the ack
\* objects invoked before, whose place stays, and whose content stays
\* unless it is of the same sub-message; an aggregate handed over in the
\* step is the array as it then stands.
C22_AggregateInCompletionOrder ==
    [][(/\ last'.op \in {"invoke", "settle"}
        /\ last'.arg.message.inTx
        /\ ~last'.arg.message.isSync) =>
          LET m == last'.arg.message
              before == tx.deferredAcks
              after == tx'.deferredAcks
              invoked == Len(last'.acks) + Len(last'.nacks)
          IN  /\ Len(after) = Len(before) + invoked
              /\ \A i \in 1..Len(before) :
                    /\ after[i].correlationId = before[i].correlationId
                    /\ before[i].correlationId # m.messageId => after[i] = before[i]
              /\ \A i \in (Len(before) + 1)..Len(after) :
                    after[i].correlationId = m.messageId
              /\ \/ tx'.aggregates = tx.aggregates
                 \/ /\ Len(tx'.aggregates) = Len(tx.aggregates) + 1
                    /\ SubSeq(tx'.aggregates, 1, Len(tx.aggregates)) = tx.aggregates
                    /\ LET data == tx'.aggregates[Len(tx'.aggregates)]
                       IN  /\ Len(data) = tx.total
                           /\ Len(data) > Len(before)
                           /\ \A i \in 1..Len(data) :
                                 data[i].correlationId = after[i].correlationId]_vars

\* the second sub-message was acked first: the aggregate holds the ack
\* object of the second sub-message before that of the first
C22_Witness ==
    /\ last.op \in {"invoke", "settle"}
    /\ tx.total = 2
    /\ Len(tx.aggregates) = 1
    /\ Len(tx.aggregates[1]) = 2
    /\ tx.aggregates[1][1].correlationId = 2
    /\ tx.aggregates[1][2].correlationId = 1
    /\ last.arg.message.messageId = 1

(***************************************************************************)
(* Properties of flush scheduling and of the teardown watches              *)
(***************************************************************************)
\* C23 (as claimed): only the first enqueue of a flush cycle schedules a
\* flush, so at most one flush is pending at any time.
C23_OneFlushPending == immediates <= 1

\* the watches armed on a closed notification
Armed(event) == {i \in 1..Len(listeners) : listeners[i].event = event}

\* C24: the teardown watches are one-shot: a closed notification runs the
\* watches armed on it and disarms each of them, leaving the other watches
\* armed; the entries of their channelIds are removed; the watches on the
\* application's closed notification emit nothing and each watch on the
\* owner's emits one channel-disconnected; a notification no watch is
\* armed on changes neither the registry nor the watches and emits
\* nothing; watches are armed only by a successful createChannel, two at a
\* time.
C24_WatchesAreOneShot ==
    [][/\ last'.op = "closed" =>
            LET event == last'.arg.event
                fired == Armed(event)
            IN  /\ listeners' = SelectAt(listeners, (1..Len(listeners)) \ fired)
                /\ \A i \in 1..Len(listeners') : listeners'[i].event # event
                /\ \A i \in fired :
                      MapGet(channelMap', listeners[i].providerIdentity.channelId) = Absent
                /\ \A j \in 1..Len(channelMap) :
                      (\A i \in fired : listeners[i].providerIdentity.channelId
                                            # channelMap[j].channelId)
                      => MapGet(channelMap', channelMap[j].channelId) = channelMap[j]
                /\ Len(channelMap') <= Len(channelMap)
                /\ event.topic = "application" => last'.events = <<>>
                /\ event.topic # "application" =>
                      /\ Len(last'.events) = Cardinality(fired)
                      /\ \A i \in 1..Len(last'.events) :
                            last'.events[i].type = "channel-disconnected"
       /\ last'.op # "closed" =>
            \/ listeners' = listeners
            \/ /\ last'.op = "createChannel"
               /\ last'.ret.threw = Undef
               /\ Len(listeners') = Len(listeners) + 2
               /\ SubSeq(listeners', 1, Len(listeners)) = listeners]_vars

\* the application's closed notification has run the application watch of
\* the one registration: the entry is gone, nothing was emitted, and the
\* owner watch alone is still armed
C24_Witness ==
    /\ last.op = "closed"
    /\ last.arg.event.topic = "application"
    /\ last.events = <<>>
    /\ channelMap = <<>>
    /\ Len(listeners) = 1
    /\ listeners[1].event.topic = "window"

\* C25: a sendChannelResult with success false whose key is in the table
\* invokes the nack of the entry once, with the reason given or with
\* 'Channel provider error' when none (or an empty one) is given, invokes
\* no ack, removes the entry and leaves the other entries as they were.
C25_FailureNacksOnce ==
    [][IsResult(last') =>
          LET p == last'.arg.payload
              key == KeyOf(p.correlationId, p.destinationToken)
          IN  (~p.success /\ key \in DOMAIN remoteAckMap) =>
                /\ last'.nacks =
                      <<[cb |-> remoteAckMap[key],
                         message |-> IF p.reason = Undef \/ p.reason = S("")
                                     THEN "Channel provider error"
                                     ELSE p.reason[1]]>>
                /\ last'.acks = <<>>
                /\ DOMAIN remoteAckMap' = (DOMAIN remoteAckMap) \ {key}
                /\ \A k \in DOMAIN remoteAckMap' : remoteAckMap'[k] = remoteAckMap[k]]_vars

\* a provider has reported a failure with a reason for a pending call: the
\* call was nacked with the reason and its entry is gone
C25_Witness ==
    /\ IsResult(last)
    /\ ~last.arg.payload.success
    /\ last.arg.payload.reason = S("boom")
    /\ last.acks = <<>>
    /\ Len(last.nacks) = 1
    /\ last.nacks[1].cb # Reporter
    /\ last.nacks[1].message = "boom"
    /\ KeyOf(last.arg.payload.correlationId, last.arg.payload.destinationToken)
           \notin DOMAIN remoteAckMap

(***************************************************************************)
(* Properties of the acknowledgement of synchronous requests               *)
(***************************************************************************)
\* an aggregate acknowledgement of the transaction is handed to mainAck in
\* the step
AggregateAcked ==
    /\ tx'.total >= 0
    /\ Len(tx'.aggregates) >
           (IF last'.op = "onTransaction" THEN 0 ELSE Len(tx.aggregates))

\* C26 (as claimed): the acknowledgement of a request with isSync goes
\* inline, in every state: no step of a message or sub-message with isSync,
\* its arrival, the calls of its handler or the end of its handler, and no
\* step that acknowledges an 'api-transaction' with isSync, queues anything
\* in the outbound buffer or schedules a flush; when such a request is
\* acknowledged and the sender lives, the ack object under its messageId is
\* the return value of the call.
C26_SyncAckInline ==
    [][/\ (/\ last'.op \in {"onMessage", "invoke", "settle"}
           /\ last'.arg.message.isSync) =>
             /\ pendingMessages' = pendingMessages
             /\ immediates' = immediates
             /\ pendingFlush' = pendingFlush
             /\ (/\ last'.op \in {"invoke", "settle"}
                 /\ Len(last'.acks) + Len(last'.nacks) >= 1
                 /\ ~senderIsDestroyed) =>
                   /\ last'.ret # Undef
                   /\ last'.ret[1][2].correlationId = last'.arg.message.messageId
       /\ (AggregateAcked /\ tx'.isSync) =>
             /\ pendingMessages' = pendingMessages
             /\ immediates' = immediates
             /\ pendingFlush' = pendingFlush
             /\ ~senderIsDestroyed =>
                   /\ last'.ret # Undef
                   /\ last'.ret[1][2].correlationId = tx'.messageId]_vars

(***************************************************************************)
(* Properties of the outcome of Channel.connectToChannel                   *)
(***************************************************************************)
\* C27 (as claimed): every connectToChannel has exactly one outcome: it
\* forwards one connection request and registers one correlation entry
\* without invoking nack, or it invokes nack exactly once and neither
\* forwards nor registers; nack is never invoked twice for one call.
C27_OneOutcomePerConnect ==
    [][IsConnect(last') =>
          \/ /\ Len(last'.sent) = 1
             /\ last'.nacks = <<>>
             /\ KeyOf(last'.arg.messageId, last'.arg.identity) \in DOMAIN remoteAckMap'
             /\ remoteAckMap'[KeyOf(last'.arg.messageId, last'.arg.identity)] = last'.arg.cb
          \/ /\ Len(last'.nacks) = 1
             /\ last'.sent = <<>>
             /\ remoteAckMap' = remoteAckMap]_vars

(***************************************************************************)
(* Properties of the remote leg of a desktop-event subscription            *)
(***************************************************************************)
\* C28 (as claimed): once the unsubscribe closure of a subscription has
\* been invoked and its remote request has settled, no remote subscription
\* of it is active, whether the closure was invoked after the request
\* resolved or before.
C28_NoRemoteLeftAfterUnsubscribe ==
    \A j \in 1..Len(remoteSubs) :
        (remoteSubs[j].invoked /\ remoteSubs[j].remote # "pending")
            => remoteSubs[j].remote # "active"

====
